---------------------------- MODULE Spec2Model ----------------------------
(***************************************************************************)
(* A model of the cleaning pipeline of backend/app/cleaning.py.            *)
(*                                                                         *)
(* A text (a Python str) is a sequence of one-character strings.  A cell   *)
(* is a record: the null cell (NaN/None/NaT), a float64 number (a rational *)
(* <<numerator, denominator>>) or a text.  A column is a record            *)
(* [name, dtype, vals]; a table (a DataFrame) is a sequence of columns of  *)
(* equal length.                                                           *)
(***************************************************************************)
EXTENDS Integers, Sequences, FiniteSets, TLC

VARIABLES
    pc,         \* position of run_cleaning_pipeline
    df,         \* the working DataFrame
    cfg,        \* the CleaningConfig
    meta,       \* the metadata dict
    df_raw,     \* the caller's DataFrame (the pipeline works on a copy)
    hist,       \* the DataFrame as it entered each stage already run
    names_in,   \* standardize_column_names harness: the columns given
    names_out,  \* ... the columns after the latest call
    names_lower,\* ... the lowercase argument
    names_calls,\* ... number of calls made
    store,      \* the database: cleaned tables, Dataset, DatasetSource and report rows
    mpc,        \* position of the merge call or request handler under way
    margs,      \* its arguments
    existing_df,\* the DataFrame object perform_merge_operation loaded
    new_df,     \* the DataFrame object the caller passed as new_df
    new_given,  \* new_df as it was when the call began
    store_given,\* the database as it was when the call began
    mresult,    \* what the call returned or raised
    session,    \* the uncommitted changes of the handler's ORM session
    retry       \* upload_dataset: corruption_stage and attempt

pvars == <<pc, df, cfg, meta, df_raw, hist>>
nvars == <<names_in, names_out, names_lower, names_calls>>
mvars == <<store, mpc, margs, existing_df, new_df, new_given, store_given, mresult, session, retry>>
vars == <<pc, df, cfg, meta, df_raw, hist, names_in, names_out, names_lower, names_calls,
          store, mpc, margs, existing_df, new_df, new_given, store_given, mresult, session, retry>>

---------------------------------------------------------------------------
(* Bounds of the model. *)
MaxNames == 3
MaxRows == 3
MaxDateRows == 4
MaxNumericRows == 10
MaxNoiseRows == 2
MaxTrimRows == 3
MaxDupRows == 2
MaxMergeRows == 2
MaxRequests == 2
MaxPlaceholderRows == 2
MaxConcurrent == 2

---------------------------------------------------------------------------
(* Texts. *)

UpperChars == <<"A", "B", "C", "D", "E", "F", "G", "H", "I", "J", "K", "L", "M",
                "N", "O", "P", "Q", "R", "S", "T", "U", "V", "W", "X", "Y", "Z">>
LowerChars == <<"a", "b", "c", "d", "e", "f", "g", "h", "i", "j", "k", "l", "m",
                "n", "o", "p", "q", "r", "s", "t", "u", "v", "w", "x", "y", "z">>

\* str.lower() of one character
LowerChar(c) ==
    IF \E i \in 1..Len(UpperChars) : UpperChars[i] = c
    THEN LowerChars[CHOOSE i \in 1..Len(UpperChars) : UpperChars[i] = c]
    ELSE c

\* str.lower()
Lower(s) == [i \in 1..Len(s) |-> LowerChar(s[i])]

\* whitespace as str.strip(), str.split() and the regex \s see it
IsSpace(c) == c \in {" ", "\t"}

RECURSIVE LStrip(_)
LStrip(s) == IF s # <<>> /\ IsSpace(Head(s)) THEN LStrip(Tail(s)) ELSE s

RECURSIVE RStrip(_)
RStrip(s) ==
    IF s # <<>> /\ IsSpace(s[Len(s)]) THEN RStrip(SubSeq(s, 1, Len(s) - 1)) ELSE s

\* str.strip()
Strip(s) == RStrip(LStrip(s))

\* re.sub(r'\s+', ' ', s): every run of whitespace becomes one space
RECURSIVE CollapseWs(_)
CollapseWs(s) ==
    IF s = <<>> THEN <<>>
    ELSE IF IsSpace(Head(s))
         THEN <<" ">> \o CollapseWs(LStrip(s))
         ELSE <<Head(s)>> \o CollapseWs(Tail(s))

\* ' '.join(s.split()): strip, then runs of whitespace become one space
SplitJoin(s) == CollapseWs(Strip(s))

Digit(d) == CASE d = 0 -> "0" [] d = 1 -> "1" [] d = 2 -> "2" [] d = 3 -> "3"
              [] d = 4 -> "4" [] d = 5 -> "5" [] d = 6 -> "6" [] d = 7 -> "7"
              [] d = 8 -> "8" [] d = 9 -> "9"

\* str(n) of a natural number
RECURSIVE IntToStr(_)
IntToStr(n) == IF n < 10 THEN <<Digit(n)>> ELSE IntToStr(n \div 10) \o <<Digit(n % 10)>>

---------------------------------------------------------------------------
(* standardize_column_names *)

\* lines 65-70: the base name of one column
BaseName(c, lowercase) ==
    LET b1 == SplitJoin(Strip(c))
        b2 == IF lowercase THEN Lower(b1) ELSE b1
    IN IF b2 = <<>> THEN <<"u", "n", "n", "a", "m", "e", "d">> ELSE b2

\* lines 64-76: the loop over df.columns, with the dict seen
RECURSIVE StdLoop(_, _, _, _)
StdLoop(cols, lowercase, seen, new_cols) ==
    IF cols = <<>> THEN new_cols
    ELSE LET base == BaseName(Head(cols), lowercase)
         IN IF base \in DOMAIN seen
            THEN LET n == seen[base] + 1
                 IN StdLoop(Tail(cols), lowercase, [seen EXCEPT ![base] = n],
                            Append(new_cols, base \o <<"_">> \o IntToStr(n)))
            ELSE StdLoop(Tail(cols), lowercase, seen @@ (base :> 0),
                         Append(new_cols, base))

\* the new column names, in column order
StandardizeNames(cols, lowercase) == StdLoop(cols, lowercase, << >>, << >>)

---------------------------------------------------------------------------
(* Cells, columns and tables. *)

Null == [k |-> "null"]
Num(n, d) == [k |-> "num", v |-> <<n, d>>]
Txt(s) == [k |-> "str", s |-> s]

\* pd.isna of one cell
IsNa(c) == c.k = "null"

\* len(df.columns), len(df)
NCols(t) == Len(t)
NRows(t) == IF t = << >> THEN 0 ELSE Len(t[1].vals)

\* df.shape
Shape(t) == <<NRows(t), NCols(t)>>

\* line 189 with the two names of the unpacking swapped
RawShapeSwapped(t) == <<NCols(t), NRows(t)>>

\* line 189: rows_before, cols_before = df_raw.shape
RawShape(t) == Shape(t)

\* df.iloc[i]: the cells of row i, in column order
RowAt(t, i) == [j \in 1..Len(t) |-> t[j].vals[i]]

ColNames(t) == [j \in 1..Len(t) |-> t[j].name]

\* number of null cells of a row
NaCount(row) == Cardinality({ j \in 1..Len(row) : IsNa(row[j]) })

\* row.isna().mean() > p/q (the mean of no cell is NaN, and NaN > x is False)
NaFracGt(row, p, q) == Len(row) > 0 /\ NaCount(row) * q > p * Len(row)

\* the elements of s at the indices in K between lo and hi, in order
RECURSIVE SelectRange(_, _, _, _)
SelectRange(s, K, lo, hi) ==
    IF lo > hi THEN << >>
    ELSE IF lo = hi THEN (IF lo \in K THEN <<s[lo]>> ELSE << >>)
    ELSE LET mid == (lo + hi) \div 2
         IN SelectRange(s, K, lo, mid) \o SelectRange(s, K, mid + 1, hi)

\* the elements of s at the indices in K, in order
SelectIdx(s, K) == SelectRange(s, K, 1, Len(s))

\* df.loc[mask].reset_index(drop=True): the rows at the indices in K
KeepRows(t, K) == [j \in 1..Len(t) |-> [t[j] EXCEPT !.vals = SelectIdx(t[j].vals, K)]]

\* str(x) of a float64 that holds a whole number, as astype(str) prints it
NumStr(v) == IntToStr(v[1] \div v[2]) \o <<".", "0">>

\* astype(str) of one non-null cell
CellStr(c) == IF c.k = "str" THEN c.s ELSE NumStr(c.v)

---------------------------------------------------------------------------
(* Placeholder strings, cleaning.py line 195. *)

PlaceholderWords == { <<"n", "a", "n">>, <<"n", "o", "n", "e">> }

\* the regexes (?i)^(nan)$ and (?i)^(none)$ on one cell; only a str can match
ReplacePlaceholder(c) ==
    IF c.k = "str" /\ Lower(c.s) \in PlaceholderWords THEN Null ELSE c

ReplacePlaceholders(t) ==
    [j \in 1..Len(t) |->
        [t[j] EXCEPT !.vals = [i \in 1..Len(t[j].vals) |-> ReplacePlaceholder(t[j].vals[i])]]]

---------------------------------------------------------------------------
(* Noise rows, cleaning.py lines 197-223. *)

NoiseRowLimit == 1000
NoiseTextLen == 25

\* noise_patterns: each is anchored at the start of the string
NoisePatterns ==
    { <<"#">>, <<"p", "i", "p", " ">>, <<"u", "v", "i", "c", "o", "r", "n", " ">>,
      <<"c", "d", " ">>, <<"p", "y", "t", "h", "o", "n", " ">>, <<"p", "y", " ", "-">> }

\* str.contains(pat, regex=True, case=False) for an anchored pattern
StartsWithCI(s, pat) ==
    Len(s) >= Len(pat) /\ Lower(SubSeq(s, 1, Len(pat))) = pat

\* _is_noise_row with len(...) >= 25 at line 203
IsNoiseRowFrom25(row) ==
    LET non_null == { CellStr(row[j]) : j \in { j \in 1..Len(row) : ~IsNa(row[j]) } }
    IN IF non_null = {} THEN TRUE
       ELSE IF Cardinality(non_null) = 1 /\ (\E s \in non_null : Len(s) >= NoiseTextLen)
       THEN TRUE
       ELSE /\ NaFracGt(row, 4, 10)
            /\ \E pat \in NoisePatterns : \E s \in non_null : StartsWithCI(s, pat)

\* _is_noise_row
IsNoiseRow(row) ==
    LET non_null == { CellStr(row[j]) : j \in { j \in 1..Len(row) : ~IsNa(row[j]) } }
    IN IF non_null = {} THEN TRUE
       ELSE IF Cardinality(non_null) = 1 /\ (\E s \in non_null : Len(s) > NoiseTextLen)
       THEN TRUE
       ELSE /\ NaFracGt(row, 4, 10)
            /\ \E pat \in NoisePatterns : \E s \in non_null : StartsWithCI(s, pat)

\* lines 213-223: the rows the mask marks (row 0 is never marked)
NoiseMask(t) ==
    IF NRows(t) <= NoiseRowLimit
    THEN { i \in 1..NRows(t) : i # 1 /\ IsNoiseRow(RowAt(t, i)) }
    ELSE {}

---------------------------------------------------------------------------
(* Trailing mostly empty rows, cleaning.py lines 225-232. *)

\* the test of the while loop with >= 0.8 at line 227
TrailingEmptyFrom80(t, n) == n > 0 /\ NaCount(RowAt(t, n)) * 10 >= 8 * NCols(t)

\* the test of the while loop on the last of the first n rows
TrailingEmpty(t, n) == n > 0 /\ NaFracGt(RowAt(t, n), 8, 10)

\* the while loop: the number of rows left when it ends.  It takes the last row
\* away as long as the test holds, so it ends at the last row that fails it.
TrimLoop(t) ==
    CHOOSE left \in 0..NRows(t) :
        /\ ~TrailingEmpty(t, left)
        /\ \A n \in (left + 1)..NRows(t) : TrailingEmpty(t, n)

---------------------------------------------------------------------------
(* Duplicate columns, cleaning.py lines 237-249. *)

Range(s) == { s[i] : i \in 1..Len(s) }

\* the positions of the columns df[name] selects
ColsNamed(t, name) == { j \in 1..Len(t) : t[j].name = name }

\* df[a].equals(df[b]).  A label that one column carries selects a Series, and
\* two Series are equal when dtype and values are; a label that several columns
\* carry selects a DataFrame, which equals only a DataFrame with the same labels.
FrameEquals(t, a, b) ==
    IF Cardinality(ColsNamed(t, a)) = 1 /\ Cardinality(ColsNamed(t, b)) = 1
    THEN LET x == t[CHOOSE j \in ColsNamed(t, a) : TRUE]
             y == t[CHOOSE j \in ColsNamed(t, b) : TRUE]
         IN x.dtype = y.dtype /\ x.vals = y.vals
    ELSE a = b

\* lines 242-246: the inner loop, other = df.columns[j]
RECURSIVE DupInner(_, _, _, _)
DupInner(t, i, j, cols_to_drop) ==
    IF j > Len(t) THEN cols_to_drop
    ELSE IF t[j].name \in Range(cols_to_drop) THEN DupInner(t, i, j + 1, cols_to_drop)
    ELSE IF FrameEquals(t, t[i].name, t[j].name)
         THEN DupInner(t, i, j + 1, Append(cols_to_drop, t[j].name))
         ELSE DupInner(t, i, j + 1, cols_to_drop)

\* lines 239-246: the outer loop, col = df.columns[i]
RECURSIVE DupOuter(_, _, _)
DupOuter(t, i, cols_to_drop) ==
    IF i > Len(t) THEN cols_to_drop
    ELSE IF t[i].name \in Range(cols_to_drop) THEN DupOuter(t, i + 1, cols_to_drop)
    ELSE DupOuter(t, i + 1, DupInner(t, i, i + 1, cols_to_drop))

ColsToDrop(t) == DupOuter(t, 1, << >>)

\* df.drop(columns=labels): every column that carries one of the labels goes
DropColumns(t, labels) == SelectSeq(t, LAMBDA c : c.name \notin Range(labels))

---------------------------------------------------------------------------
(* infer_and_cast_dtypes, cleaning.py lines 81-119. *)

SampleSize == 200

NaT == [ok |-> FALSE]
Midnight == <<"0", "0", ":", "0", "0", ":", "0", "0">>
Epoch == <<"1", "9", "7", "0", "-", "0", "1", "-", "0", "1">>

\* the calendar dates and times of day the model's parser knows
DatePool ==
    { <<"2", "0", "2", "3", "-", "0", "1", "-", "0", "1">>,
      <<"2", "0", "2", "3", "-", "0", "2", "-", "0", "1">>,
      <<"2", "0", "2", "3", "-", "0", "3", "-", "0", "1">> }
TimePool == { Midnight, <<"1", "0", ":", "3", "0", ":", "0", "0">> }

\* pd.to_datetime(x, errors='coerce') of one cell: a timestamp [date, time, ns]
\* (ns: the nanoseconds below the second) or NaT.  A float is nanoseconds since
\* the epoch.  A text parses when it is a date of DatePool, alone or followed by
\* "T" or " " and a time of TimePool; the other texts of the model (words,
\* numbers below 1000) are texts the parser rejects.
ToDatetime(c) ==
    IF c.k = "null" THEN NaT
    ELSE IF c.k = "num"
    THEN [ok |-> TRUE, date |-> Epoch, time |-> Midnight, ns |-> c.v[1] \div c.v[2]]
    ELSE IF c.s \in DatePool
    THEN [ok |-> TRUE, date |-> c.s, time |-> Midnight, ns |-> 0]
    ELSE IF /\ Len(c.s) = 19
            /\ SubSeq(c.s, 1, 10) \in DatePool
            /\ c.s[11] \in {"T", " "}
            /\ SubSeq(c.s, 12, 19) \in TimePool
    THEN [ok |-> TRUE, date |-> SubSeq(c.s, 1, 10), time |-> SubSeq(c.s, 12, 19), ns |-> 0]
    ELSE NaT

\* parsed.dt.time == time(0, 0) for one parsed value; NaT compares unequal
IsMidnight(p) == p.ok /\ p.time = Midnight /\ p.ns = 0

\* str(parsed.date())
DateOnly(p) == Txt(p.date)

\* parsed.strftime('%Y-%m-%dT%H:%M:%S'); NaT gives NaN
IsoTimestamp(p) == IF p.ok THEN Txt(p.date \o <<"T">> \o p.time) ELSE Null

DigitChars == { "0", "1", "2", "3", "4", "5", "6", "7", "8", "9" }
DigitVal(ch) == CHOOSE d \in 0..9 : Digit(d) = ch

RECURSIVE StrToInt(_)
StrToInt(s) == IF s = << >> THEN 0 ELSE 10 * StrToInt(SubSeq(s, 1, Len(s) - 1)) + DigitVal(s[Len(s)])

\* pd.to_numeric(x, errors='coerce') of one cell; of the model's texts the
\* digit strings convert
ToNumeric(c) ==
    IF c.k = "str"
    THEN IF c.s # << >> /\ Range(c.s) \subseteq DigitChars THEN Num(StrToInt(c.s), 1) ELSE Null
    ELSE c

\* the number of positions of a sequence that hold a member of the set S
CountIn(s, S) == Cardinality({ i \in 1..Len(s) : s[i] \in S })

\* lines 87-97
ShouldAttemptDate(col, date_cols) ==
    IF col.name \in date_cols THEN TRUE
    ELSE IF col.dtype = "object"
    THEN LET non_null == SelectSeq(col.vals, LAMBDA c : ~IsNa(c))
             sample == SubSeq(non_null, 1, IF Len(non_null) < SampleSize THEN Len(non_null) ELSE SampleSize)
         IN /\ sample # << >>
            /\ CountIn(sample, { c \in Range(sample) : ToDatetime(Txt(CellStr(c))).ok }) * 10 >= 6 * Len(sample)
    ELSE FALSE

\* lines 109-111: numeric_conv.notna().mean() > 0.9
NumericEnough(vals) ==
    Len(vals) > 0 /\ CountIn(vals, { c \in Range(vals) : ~IsNa(ToNumeric(c)) }) * 10 > 9 * Len(vals)

\* lines 85-118 for one column: the column afterwards and its dtype_map entry
InferColumn(col, date_cols) ==
    LET parsed_full == [i \in 1..Len(col.vals) |-> ToDatetime(col.vals[i])]
        n == Len(col.vals)
    IN IF ShouldAttemptDate(col, date_cols) /\ \E i \in 1..n : parsed_full[i].ok
       THEN [col |-> [name |-> col.name, dtype |-> "object",
                      vals |-> IF \A i \in 1..n : IsMidnight(parsed_full[i])
                               THEN [i \in 1..n |-> DateOnly(parsed_full[i])]
                               ELSE [i \in 1..n |-> IsoTimestamp(parsed_full[i])]],
             sem |-> "date"]
       ELSE IF col.dtype = "object" /\ NumericEnough(col.vals)
       THEN [col |-> [name |-> col.name, dtype |-> "float64",
                      vals |-> [i \in 1..n |-> ToNumeric(col.vals[i])]],
             sem |-> "numeric"]
       ELSE [col |-> col,
             sem |-> IF col.dtype = "float64" THEN "numeric" ELSE "categorical"]

---------------------------------------------------------------------------
(* normalize_categoricals, cleaning.py lines 176-183. *)

\* astype(str) of one cell: a missing value prints as "nan"
AsTypeStr(c) == IF IsNa(c) THEN <<"n", "a", "n">> ELSE CellStr(c)

\* lines 179-181 for one cell
NormalizeCell(c, lowercase) ==
    LET s == CollapseWs(Strip(AsTypeStr(c)))
    IN Txt(IF lowercase THEN Lower(s) ELSE s)

NormalizeCategoricals(t, lowercase) ==
    [j \in 1..Len(t) |->
        IF t[j].dtype = "object"
        THEN [t[j] EXCEPT !.vals = [i \in 1..Len(t[j].vals) |-> NormalizeCell(t[j].vals[i], lowercase)]]
        ELSE t[j]]

---------------------------------------------------------------------------
(* remove_duplicates, cleaning.py lines 169-173. *)

\* df.duplicated(keep='last'): the rows equal to a later row
DuplicatedKeepLast(t) ==
    { i \in 1..NRows(t) : \E j \in (i + 1)..NRows(t) : RowAt(t, j) = RowAt(t, i) }

\* a duplicated() that marks only the first of the rows equal to an earlier row
DuplicatedFirstOnly(t) ==
    LET D == { i \in 1..NRows(t) : \E j \in 1..(i - 1) : RowAt(t, j) = RowAt(t, i) }
    IN { i \in D : \A h \in D : i <= h }

\* df.duplicated(): the rows equal to an earlier row
Duplicated(t) == { i \in 1..NRows(t) : \E j \in 1..(i - 1) : RowAt(t, j) = RowAt(t, i) }

\* remove_duplicates(df): the DataFrame without the marked rows, and their number
RemoveDuplicates(t) ==
    [df |-> KeepRows(t, (1..NRows(t)) \ Duplicated(t)), removed |-> Cardinality(Duplicated(t))]

---------------------------------------------------------------------------
(* handle_missing_values, cleaning.py lines 122-166. *)

RECURSIVE Gcd(_, _)
Gcd(a, b) == IF b = 0 THEN a ELSE Gcd(b, a % b)

\* the rational n/d in lowest terms (d > 0, n >= 0)
Ratio(n, d) == LET g == Gcd(n, d) IN IF g = 0 THEN <<0, 1>> ELSE <<n \div g, d \div g>>

RatLeq(a, b) == a[1] * b[2] <= b[1] * a[2]
RatAdd(a, b) == Ratio(a[1] * b[2] + b[1] * a[2], a[2] * b[2])

RECURSIVE RatSum(_)
RatSum(s) == IF s = << >> THEN <<0, 1>> ELSE RatAdd(Head(s), RatSum(Tail(s)))

\* the non-null numbers of a column
Numbers(vals) ==
    LET nn == SelectSeq(vals, LAMBDA c : ~IsNa(c)) IN [i \in 1..Len(nn) |-> nn[i].v]

\* s.mean() and s.median(): NaN (here Null) when the column has no number
Mean(vals) ==
    LET xs == Numbers(vals)
    IN IF xs = << >> THEN Null
       ELSE LET t == RatSum(xs) r == Ratio(t[1], t[2] * Len(xs)) IN Num(r[1], r[2])

Median(vals) ==
    LET xs == SortSeq(Numbers(vals), LAMBDA a, b : RatLeq(a, b) /\ a # b)
        n == Len(xs)
    IN IF n = 0 THEN Null
       ELSE IF n % 2 = 1 THEN Num(xs[(n + 1) \div 2][1], xs[(n + 1) \div 2][2])
       ELSE LET t == RatAdd(xs[n \div 2], xs[n \div 2 + 1]) r == Ratio(t[1], t[2] * 2)
            IN Num(r[1], r[2])

\* the order of str: by code point, a prefix first
CharOrder ==
    <<"\t", " ", "#", "-", ".", "0", "1", "2", "3", "4", "5", "6", "7", "8", "9", ":">>
    \o UpperChars \o <<"_">> \o LowerChars
CharRank(ch) == CHOOSE i \in 1..Len(CharOrder) : CharOrder[i] = ch

RECURSIVE TextLess(_, _)
TextLess(a, b) ==
    IF b = << >> THEN FALSE
    ELSE IF a = << >> THEN TRUE
    ELSE IF Head(a) = Head(b) THEN TextLess(Tail(a), Tail(b))
    ELSE CharRank(Head(a)) < CharRank(Head(b))

\* s.mode(dropna=True).iloc[0], or '' when there is none: the most frequent
\* non-null value, the smallest of them when several are
ModeOrEmpty(vals) ==
    LET nn == { c \in Range(vals) : ~IsNa(c) }
        freq(c) == CountIn(vals, {c})
        top == { c \in nn : \A o \in nn : freq(o) <= freq(c) }
    IN IF nn = {} THEN Txt(<< >>)
       ELSE CHOOSE c \in top : \A o \in top : o = c \/ TextLess(c.s, o.s)

\* s.fillna(v); fillna(NaN) changes nothing
FillNa(vals, v) == [i \in 1..Len(vals) |-> IF IsNa(vals[i]) THEN v ELSE vals[i]]

\* lines 127-132: the rows to_drop marks
RowsToDrop(t, c) ==
    IF c.missing_mode = "drop_rows"
    THEN { i \in 1..NRows(t) :
             NaFracGt(RowAt(t, i), c.drop_row_missing_threshold[1], c.drop_row_missing_threshold[2]) }
    ELSE {}

\* lines 135-160 for one column
FillColumn(col, c) ==
    IF c.missing_mode = "impute_mean"
    THEN IF col.dtype = "float64" THEN [col EXCEPT !.vals = FillNa(col.vals, Mean(col.vals))] ELSE col
    ELSE IF c.missing_mode = "drop_rows"
    THEN IF col.dtype = "float64"
         THEN [col EXCEPT !.vals =
                 FillNa(col.vals, CASE c.numeric_fill = "median" -> Median(col.vals)
                                    [] c.numeric_fill = "mean" -> Mean(col.vals)
                                    [] OTHER -> Num(0, 1))]
         ELSE [col EXCEPT !.vals =
                 FillNa(col.vals, IF c.categorical_fill = "mode" THEN ModeOrEmpty(col.vals)
                                  ELSE IF c.constant_fill_value # Null THEN c.constant_fill_value
                                  ELSE Txt(<< >>))]
    ELSE col

MissingCount(col) == CountIn(col.vals, {Null})

\* the DataFrame handle_missing_values returns
HandleMissingDf(t, c) ==
    LET kept == KeepRows(t, (1..NRows(t)) \ RowsToDrop(t, c))
    IN [j \in 1..Len(kept) |-> FillColumn(kept[j], c)]

\* the info dict handle_missing_values returns
HandleMissingInfo(t, c) ==
    LET out == HandleMissingDf(t, c)
    IN ("rows_dropped_for_missing" :> Cardinality(RowsToDrop(t, c)))
       @@ ("missing_by_column" :>
              [j \in 1..Len(t) |-> [name |-> t[j].name, before |-> MissingCount(t[j]),
                                    after |-> MissingCount(out[j])]])
       @@ ("missing_mode" :> c.missing_mode)

---------------------------------------------------------------------------
(* run_cleaning_pipeline, one action per stage. *)

Record(stage) == hist' = hist @@ (stage :> df)

\* lines 188-193
Start ==
    /\ pc = "start"
    /\ meta' = ("rows_before" :> RawShape(df_raw)[1]) @@ ("cols_before" :> RawShape(df_raw)[2])
    /\ df' = df_raw
    /\ pc' = "placeholder"
    /\ UNCHANGED <<cfg, df_raw, hist, nvars, mvars>>

\* line 195
Placeholder ==
    /\ pc = "placeholder"
    /\ df' = ReplacePlaceholders(df)
    /\ Record("placeholder")
    /\ pc' = "noise"
    /\ UNCHANGED <<cfg, meta, df_raw, nvars, mvars>>

\* lines 197-223
Noise ==
    /\ pc = "noise"
    /\ LET mask == NoiseMask(df)
       IN /\ df' = KeepRows(df, (1..NRows(df)) \ mask)
          /\ meta' = meta @@ ("noise_rows_removed" :> Cardinality(mask))
    /\ Record("noise")
    /\ pc' = "trim"
    /\ UNCHANGED <<cfg, df_raw, nvars, mvars>>

\* lines 225-232
Trim ==
    /\ pc = "trim"
    /\ LET left == TrimLoop(df)
       IN /\ df' = KeepRows(df, 1..left)
          /\ meta' = meta @@ ("trailing_empty_rows_removed" :> NRows(df) - left)
    /\ Record("trim")
    /\ pc' = "names"
    /\ UNCHANGED <<cfg, df_raw, nvars, mvars>>

\* lines 234 and 77
Names ==
    /\ pc = "names"
    /\ LET new_cols == StandardizeNames(ColNames(df), cfg.lowercase_categoricals)
       IN df' = [j \in 1..Len(df) |-> [df[j] EXCEPT !.name = new_cols[j]]]
    /\ Record("names")
    /\ pc' = "dupcols"
    /\ UNCHANGED <<cfg, meta, df_raw, nvars, mvars>>

\* lines 237-249
DupCols ==
    /\ pc = "dupcols"
    /\ LET cols_to_drop == ColsToDrop(df)
       IN /\ df' = DropColumns(df, cols_to_drop)
          /\ meta' = meta @@ ("duplicate_columns_removed" :> cols_to_drop)
    /\ Record("dupcols")
    /\ pc' = "infer"
    /\ UNCHANGED <<cfg, df_raw, nvars, mvars>>

\* line 251; dtypes_map and date_cols_std reach the metadata at lines 259-260
Infer ==
    /\ pc = "infer"
    /\ LET res == [j \in 1..Len(df) |-> InferColumn(df[j], cfg.date_cols)]
       IN /\ df' = [j \in 1..Len(df) |-> res[j].col]
          /\ meta' = meta
                @@ ("dtype_inference" :> [j \in 1..Len(df) |-> [name |-> df[j].name, sem |-> res[j].sem]])
                @@ ("date_columns_standardized" :>
                       ColNames(SelectSeq(df, LAMBDA c : InferColumn(c, cfg.date_cols).sem = "date")))
    /\ Record("infer")
    /\ pc' = "normcat"
    /\ UNCHANGED <<cfg, df_raw, nvars, mvars>>

\* line 252
NormCat ==
    /\ pc = "normcat"
    /\ df' = NormalizeCategoricals(df, cfg.lowercase_categoricals)
    /\ Record("normcat")
    /\ pc' = "dedup"
    /\ UNCHANGED <<cfg, meta, df_raw, nvars, mvars>>

\* lines 254-255 and 169-173
Dedup ==
    /\ pc = "dedup"
    /\ LET dup == Duplicated(df)
       IN /\ df' = KeepRows(df, (1..NRows(df)) \ dup)
          /\ meta' = meta @@ ("duplicates_removed" :> Cardinality(dup))
    /\ Record("dedup")
    /\ pc' = "missing"
    /\ UNCHANGED <<cfg, df_raw, nvars, mvars>>

\* ', '.join(names)
RECURSIVE JoinNames(_)
JoinNames(names) ==
    IF names = << >> THEN << >>
    ELSE IF Len(names) = 1 THEN names[1]
    ELSE names[1] \o <<",", " ">> \o JoinNames(Tail(names))

\* an f-string of the notes: the text before the value, the value as printed,
\* the text after it
Note(before, value, after) == [before |-> before, value |-> value, after |-> after]

\* lines 266-280 with the tests of lines 274 and 276 in the other order
BuildNotesDroppedFirst(metadata) ==
    <<Note("standardized column names", << >>, "")>>
    \o (IF metadata.noise_rows_removed # 0
        THEN <<Note("removed ", IntToStr(metadata.noise_rows_removed), " noise rows")>>
        ELSE << >>)
    \o (IF metadata.trailing_empty_rows_removed # 0
        THEN <<Note("removed ", IntToStr(metadata.trailing_empty_rows_removed),
                    " trailing empty rows")>>
        ELSE << >>)
    \o (IF metadata.duplicate_columns_removed # << >>
        THEN <<Note("dropped duplicate columns: ",
                    JoinNames(metadata.duplicate_columns_removed), "")>>
        ELSE << >>)
    \o (IF metadata.rows_dropped_for_missing # 0
        THEN <<Note("dropped ", IntToStr(metadata.rows_dropped_for_missing),
                    " rows exceeding missing threshold")>>
        ELSE << >>)
    \o (IF metadata.duplicates_removed # 0
        THEN <<Note("removed ", IntToStr(metadata.duplicates_removed), " duplicate rows")>>
        ELSE << >>)
    \o (IF metadata.date_columns_standardized # << >>
        THEN <<Note("standardized date columns: ",
                    JoinNames(metadata.date_columns_standardized), "")>>
        ELSE << >>)

\* lines 266-280: the notes list
BuildNotes(metadata) ==
    <<Note("standardized column names", << >>, "")>>
    \o (IF metadata.noise_rows_removed # 0
        THEN <<Note("removed ", IntToStr(metadata.noise_rows_removed), " noise rows")>>
        ELSE << >>)
    \o (IF metadata.trailing_empty_rows_removed # 0
        THEN <<Note("removed ", IntToStr(metadata.trailing_empty_rows_removed),
                    " trailing empty rows")>>
        ELSE << >>)
    \o (IF metadata.duplicate_columns_removed # << >>
        THEN <<Note("dropped duplicate columns: ",
                    JoinNames(metadata.duplicate_columns_removed), "")>>
        ELSE << >>)
    \o (IF metadata.duplicates_removed # 0
        THEN <<Note("removed ", IntToStr(metadata.duplicates_removed), " duplicate rows")>>
        ELSE << >>)
    \o (IF metadata.rows_dropped_for_missing # 0
        THEN <<Note("dropped ", IntToStr(metadata.rows_dropped_for_missing),
                    " rows exceeding missing threshold")>>
        ELSE << >>)
    \o (IF metadata.date_columns_standardized # << >>
        THEN <<Note("standardized date columns: ",
                    JoinNames(metadata.date_columns_standardized), "")>>
        ELSE << >>)

\* lines 257-282
Missing ==
    /\ pc = "missing"
    /\ df' = HandleMissingDf(df, cfg)
    /\ meta' = LET metadata == meta @@ HandleMissingInfo(df, cfg)
                                    @@ ("rows_after" :> Shape(HandleMissingDf(df, cfg))[1])
                                    @@ ("cols_after" :> Shape(HandleMissingDf(df, cfg))[2])
               IN metadata @@ ("notes" :> BuildNotes(metadata))
    /\ Record("missing")
    /\ pc' = "done"
    /\ UNCHANGED <<cfg, df_raw, nvars, mvars>>

\* run_cleaning_pipeline(df_raw, cfg)[0]: the stages one after the other
RunCleaningPipeline(t, c) ==
    LET replaced == ReplacePlaceholders(t)
        filtered == KeepRows(replaced, (1..NRows(replaced)) \ NoiseMask(replaced))
        trimmed == KeepRows(filtered, 1..TrimLoop(filtered))
        new_cols == StandardizeNames(ColNames(trimmed), c.lowercase_categoricals)
        named == [j \in 1..Len(trimmed) |-> [trimmed[j] EXCEPT !.name = new_cols[j]]]
        collapsed == DropColumns(named, ColsToDrop(named))
        typed == [j \in 1..Len(collapsed) |-> InferColumn(collapsed[j], c.date_cols).col]
        normalized == NormalizeCategoricals(typed, c.lowercase_categoricals)
    IN HandleMissingDf(RemoveDuplicates(normalized).df, c)

Next == Start \/ Placeholder \/ Noise \/ Trim \/ Names \/ DupCols \/ Infer \/ NormCat
        \/ Dedup \/ Missing

---------------------------------------------------------------------------
(* A harness that calls standardize_column_names on a DataFrame and then   *)
(* on its own result.                                                      *)

\* the column names the harness draws from
NamePool ==
    { <<"a">>, <<"A">>, <<" ", "a", " ">>, <<"a", " ", " ", "b">>, <<"a", " ", "b">>,
      <<>>, <<" ">>, <<"a", "_", "1">>, <<"a", "_", "1", "_", "1">>, <<"a", "_", "2">>,
      <<"u", "n", "n", "a", "m", "e", "d">> }

RECURSIVE SeqsUpTo(_, _)
SeqsUpTo(S, n) ==
    IF n = 0 THEN { << >> }
    ELSE LET shorter == SeqsUpTo(S, n - 1)
         IN shorter \cup { Append(s, x) : s \in { t \in shorter : Len(t) = n - 1 }, x \in S }

\* a database without tables and rows
EmptyStore == [cleaned |-> << >>, raw |-> << >>, datasets |-> << >>, sources |-> {}, reports |-> {}]

MergeIdle ==
    /\ store = EmptyStore /\ store_given = EmptyStore
    /\ mpc = "idle" /\ margs = << >> /\ mresult = [kind |-> "none"]
    /\ existing_df = << >> /\ new_df = << >> /\ new_given = << >>
    /\ session = << >> /\ retry = << >>

PipelineIdle ==
    /\ pc = "idle" /\ df = << >> /\ cfg = << >> /\ meta = << >>
    /\ df_raw = << >> /\ hist = << >>

InitNames ==
    /\ PipelineIdle
    /\ MergeIdle
    /\ names_in \in SeqsUpTo(NamePool, MaxNames) \ { << >> }
    /\ names_lower \in BOOLEAN
    /\ names_out = names_in
    /\ names_calls = 0

CallStandardize ==
    /\ names_calls < 2
    /\ names_out' = StandardizeNames(names_out, names_lower)
    /\ names_calls' = names_calls + 1
    /\ UNCHANGED <<names_in, names_lower>>
    /\ UNCHANGED <<pvars, mvars>>

NextNames == CallStandardize

SpecNames == InitNames /\ [][NextNames]_vars

---------------------------------------------------------------------------
(* append_below_merge, merge.py lines 30-88. *)

\* the orders in which iterating a Python set can yield its elements
Orders(S) ==
    { s \in [1..Cardinality(S) -> S] : \A i, j \in 1..Cardinality(S) : i # j => s[i] # s[j] }

\* df[col] = pd.NA for each col of the list: a new last column of nulls each
AssignNa(t, cols) ==
    t \o [j \in 1..Len(cols) |->
            [name |-> cols[j], dtype |-> "object", vals |-> [i \in 1..NRows(t) |-> Null]]]

\* df.reindex(columns=labels) raises when df carries a label twice
CanReindex(t) == \A i, j \in 1..Len(t) : i # j => t[i].name # t[j].name

\* df.reindex(columns=labels): the columns of df in the order of the labels
Reindex(t, labels) ==
    [j \in 1..Len(labels) |-> t[CHOOSE h \in 1..Len(t) : t[h].name = labels[j]]]

\* pd.concat([b, a], ignore_index=True): the frames in the other order
ConcatNewFirst(a, b) ==
    [j \in 1..Len(a) |->
        [name |-> a[j].name,
         dtype |-> IF a[j].dtype = b[j].dtype THEN a[j].dtype ELSE "object",
         vals |-> b[j].vals \o a[j].vals]]

\* pd.concat([a, b], ignore_index=True) of two frames with the same columns
Concat(a, b) ==
    [j \in 1..Len(a) |->
        [name |-> a[j].name,
         dtype |-> IF a[j].dtype = b[j].dtype THEN a[j].dtype ELSE "object",
         vals |-> a[j].vals \o b[j].vals]]

\* append_below_merge(existing_df, new_df); in_new and in_existing are the orders
\* in which lines 63 and 66 iterate the sets missing_in_new, missing_in_existing
AppendBelowMerge(existing, new, in_new, in_existing) ==
    LET existing_cols == Range(ColNames(existing))
        new_cols == Range(ColNames(new))
        merge_metadata ==
            [strategy |-> "append_below", existing_columns |-> existing_cols,
             new_columns |-> new_cols,
             missing_in_new |-> existing_cols \ new_cols,
             missing_in_existing |-> new_cols \ existing_cols,
             rows_before |-> NRows(existing), rows_added |-> NRows(new)]
        new1 == AssignNa(new, in_new)
        existing1 == AssignNa(existing, in_existing)
        all_columns ==
            ColNames(existing1)
                \o SelectSeq(ColNames(new1), LAMBDA c : c \notin Range(ColNames(existing1)))
        \* lines 64 and 67 assign into the two objects passed in
        inputs == [existing |-> existing1, new |-> new1]
    IN IF CanReindex(existing1) /\ CanReindex(new1)
       THEN LET merged_df == Concat(Reindex(existing1, all_columns), Reindex(new1, all_columns))
            IN [kind |-> "returned", df |-> merged_df,
                metadata |-> [strategy |-> "append_below",
                              existing_columns |-> merge_metadata.existing_columns,
                              new_columns |-> merge_metadata.new_columns,
                              missing_in_new |-> merge_metadata.missing_in_new,
                              missing_in_existing |-> merge_metadata.missing_in_existing,
                              rows_before |-> merge_metadata.rows_before,
                              rows_added |-> merge_metadata.rows_added,
                              rows_after |-> NRows(merged_df), columns_after |-> NCols(merged_df),
                              success |-> TRUE],
                existing |-> inputs.existing, new |-> inputs.new]
       ELSE [kind |-> "MergeError", existing |-> inputs.existing, new |-> inputs.new]

---------------------------------------------------------------------------
(* merge_on_column_join, merge.py lines 91-156. *)

\* f"new_{col}" and the suffixes ('', '_new') of line 143
NewPrefix == <<"n", "e", "w", "_">>
NewSuffix == <<"_", "n", "e", "w">>

\* the join types pd.merge accepts together with on=
JoinTypes == { "inner", "left", "right", "outer" }

\* lines 130-140: the copy of new, its conflicting columns renamed when asked
RenameConflicts(new, conflicting_cols, prefix_conflicting_columns) ==
    IF prefix_conflicting_columns /\ conflicting_cols # {}
    THEN [j \in 1..Len(new) |->
            IF new[j].name \in conflicting_cols
            THEN [new[j] EXCEPT !.name = NewPrefix \o @]
            ELSE new[j]]
    ELSE new

\* the order of two join keys: numbers by value, texts by character, nulls last
KeyBefore(a, b) ==
    IF IsNa(a) THEN FALSE
    ELSE IF IsNa(b) THEN TRUE
    ELSE IF a.k = "num" /\ b.k = "num" THEN a.v[1] * b.v[2] < b.v[1] * a.v[2]
    ELSE IF a.k = "str" /\ b.k = "str" THEN TextLess(a.s, b.s)
    ELSE a.k = "num"

RECURSIVE Flatten(_)
Flatten(ss) == IF ss = << >> THEN << >> ELSE Head(ss) \o Flatten(Tail(ss))

\* the indices of the keys equal to k, in order (null keys match each other)
Matching(keys, k) == SelectSeq([i \in 1..Len(keys) |-> i], LAMBDA i : keys[i] = k)

\* pd.merge: the pairs <<left row, right row>> of the result rows in order, 0
\* standing for no row of that side.  inner and left keep the order of the left
\* keys, right the order of the right keys, outer sorts the keys.
JoinPairs(lk, rk, how) ==
    LET pairs(i, js) == [h \in 1..Len(js) |-> <<i, js[h]>>]
        left_major(unmatched) ==
            Flatten([i \in 1..Len(lk) |->
                IF Matching(rk, lk[i]) = << >>
                THEN (IF unmatched THEN << <<i, 0>> >> ELSE << >>)
                ELSE pairs(i, Matching(rk, lk[i]))])
        right_major ==
            Flatten([j \in 1..Len(rk) |->
                IF Matching(lk, rk[j]) = << >>
                THEN << <<0, j>> >>
                ELSE [h \in 1..Len(Matching(lk, rk[j])) |-> <<Matching(lk, rk[j])[h], j>>]])
        keys == Range(lk) \cup Range(rk)
        sorted == CHOOSE s \in Orders(keys) :
                     \A a, b \in 1..Len(s) : a < b => KeyBefore(s[a], s[b])
        of_key(k) ==
            LET ls == Matching(lk, k)
                rs == Matching(rk, k)
            IN IF rs = << >> THEN [h \in 1..Len(ls) |-> <<ls[h], 0>>]
               ELSE IF ls = << >> THEN [h \in 1..Len(rs) |-> <<0, rs[h]>>]
               ELSE Flatten([h \in 1..Len(ls) |-> pairs(ls[h], rs)])
    IN CASE how = "inner" -> left_major(FALSE)
         [] how = "left" -> left_major(TRUE)
         [] how = "right" -> right_major
         [] how = "outer" -> Flatten([h \in 1..Len(sorted) |-> of_key(sorted[h])])

\* pd.merge(left, right, on=key, how=how, suffixes=('', '_new')): the columns
\* of left, then the columns of right but the key; a label both sides carry
\* keeps its name on the left and takes the suffix on the right
PdMerge(left, right, key, how) ==
    LET lcol == CHOOSE h \in 1..Len(left) : left[h].name = key
        rcol == CHOOSE h \in 1..Len(right) : right[h].name = key
        rows == JoinPairs(left[lcol].vals, right[rcol].vals, how)
        overlap == (Range(ColNames(left)) \cap Range(ColNames(right))) \ { key }
        from_left ==
            [j \in 1..Len(left) |->
                [name |-> left[j].name, dtype |-> left[j].dtype,
                 vals |-> [r \in 1..Len(rows) |->
                             IF rows[r][1] # 0 THEN left[j].vals[rows[r][1]]
                             ELSE IF j = lcol THEN right[rcol].vals[rows[r][2]]
                             ELSE Null]]]
        others == SelectSeq([j \in 1..Len(right) |-> j], LAMBDA j : j # rcol)
        from_right ==
            [h \in 1..Len(others) |->
                [name |-> IF right[others[h]].name \in overlap
                          THEN right[others[h]].name \o NewSuffix
                          ELSE right[others[h]].name,
                 dtype |-> right[others[h]].dtype,
                 vals |-> [r \in 1..Len(rows) |->
                             IF rows[r][2] # 0 THEN right[others[h]].vals[rows[r][2]]
                             ELSE Null]]]
    IN from_left \o from_right

\* merge_on_column_join(existing, new, merge_column, join_type, prefix)
MergeOnColumnJoin(existing, new, merge_column, join_type, prefix_conflicting_columns) ==
    LET existing_cols == Range(ColNames(existing))
        new_cols == Range(ColNames(new))
        conflicting_cols == (existing_cols \cap new_cols) \ { merge_column }
        new_df_renamed == RenameConflicts(new, conflicting_cols, prefix_conflicting_columns)
        rename_map == [c \in conflicting_cols |-> NewPrefix \o c]
        merged_df == PdMerge(existing, new_df_renamed, merge_column, join_type)
    IN IF merge_column \notin existing_cols \/ merge_column \notin new_cols
          \/ join_type \notin JoinTypes
       THEN [kind |-> "MergeError", existing |-> existing, new |-> new]
       ELSE [kind |-> "returned", df |-> merged_df,
             metadata |->
                 (IF prefix_conflicting_columns /\ conflicting_cols # {}
                  THEN ("renamed_columns" :> rename_map) ELSE << >>)
                 @@ [strategy |-> "merge_on_column", merge_column |-> merge_column,
                     join_type |-> join_type, existing_columns |-> existing_cols,
                     new_columns |-> new_cols, conflicting_columns |-> conflicting_cols,
                     rows_before_existing |-> NRows(existing),
                     rows_before_new |-> NRows(new),
                     rows_after |-> NRows(merged_df), columns_after |-> NCols(merged_df),
                     success |-> TRUE],
             existing |-> existing, new |-> new]

---------------------------------------------------------------------------
(* The inputs of run_cleaning_pipeline. *)

\* the DataFrame with the given columns (name, dtype) and rows (tuples of cells)
FromRows(schema, rows) ==
    [j \in 1..Len(schema) |->
        [name |-> schema[j][1], dtype |-> schema[j][2],
         vals |-> [i \in 1..Len(rows) |-> rows[i][j]]]]

Tables(schema, RowPool, n) == { FromRows(schema, rows) : rows \in SeqsUpTo(RowPool, n) }

\* CleaningConfig() with the defaults of schemas.py lines 26-32
DefaultConfig ==
    [drop_row_missing_threshold |-> <<6, 10>>, numeric_fill |-> "median",
     categorical_fill |-> "mode", constant_fill_value |-> Null,
     lowercase_categoricals |-> TRUE, date_cols |-> {}, missing_mode |-> "leave"]

NamesIdle ==
    /\ names_in = << >> /\ names_out = << >> /\ names_lower = FALSE /\ names_calls = 0

InitPipeline(TableSet, ConfigSet) ==
    /\ df_raw \in TableSet
    /\ cfg \in ConfigSet
    /\ pc = "start" /\ df = << >> /\ meta = << >> /\ hist = << >>
    /\ NamesIdle
    /\ MergeIdle

\* A table of one text column and two float columns, under the configurations
\* that differ in the missing-value policy.
X == <<"x">>
MixedSchema == << <<<<"a">>, "object">>, <<<<"B">>, "float64">>, <<<<"c">>, "float64">> >>
MixedRows ==
    { <<o, f, g>> : o \in { Null, Txt(X), Txt(<<"X", " ">>) },
                    f \in { Null, Num(1, 1) }, g \in { Null, Num(1, 1) } }
MixedConfigs ==
    { DefaultConfig,
      [DefaultConfig EXCEPT !.missing_mode = "impute_mean", !.lowercase_categoricals = FALSE],
      [DefaultConfig EXCEPT !.missing_mode = "drop_rows"],
      [DefaultConfig EXCEPT !.missing_mode = "drop_rows", !.numeric_fill = "mean",
                            !.categorical_fill = "constant", !.lowercase_categoricals = FALSE],
      [DefaultConfig EXCEPT !.missing_mode = "drop_rows", !.numeric_fill = "zero",
                            !.categorical_fill = "constant", !.constant_fill_value = Txt(X),
                            !.drop_row_missing_threshold = <<3, 10>>] }

Init == InitPipeline(Tables(MixedSchema, MixedRows, MaxRows), MixedConfigs)

Spec == Init /\ [][Next]_vars

\* A text column of dates beside a float column that keeps every row from being
\* empty.  One table holds dates alone or timestamps alone: how the library
\* parses a column that mixes the two formats depends on its version.
D1 == <<"2", "0", "2", "3", "-", "0", "1", "-", "0", "1">>
D2 == <<"2", "0", "2", "3", "-", "0", "2", "-", "0", "1">>
D3 == <<"2", "0", "2", "3", "-", "0", "3", "-", "0", "1">>
HalfPastTen == <<"1", "0", ":", "3", "0", ":", "0", "0">>
DateSchema == << <<<<"d">>, "object">>, <<<<"n">>, "float64">> >>
DateRows == { <<d, Num(1, 1)>> : d \in { Null, Txt(D1), Txt(D2), Txt(D3), Txt(X) } }
StampRows ==
    { <<d, Num(1, 1)>> :
        d \in { Null, Txt(D1 \o <<"T">> \o HalfPastTen), Txt(D2 \o <<"T">> \o Midnight), Txt(X) } }
DateConfigs ==
    { [DefaultConfig EXCEPT !.date_cols = dc, !.lowercase_categoricals = lc] :
        dc \in { {}, { <<"d">> } }, lc \in BOOLEAN }

InitDates ==
    InitPipeline(Tables(DateSchema, DateRows, MaxDateRows)
                    \cup Tables(DateSchema, StampRows, MaxDateRows), DateConfigs)

SpecDates == InitDates /\ [][Next]_vars

\* A text column of nd numbers, nj words and nn missing values, beside a float
\* column that keeps every row from being empty.
Repeat(x, n) == [i \in 1..n |-> x]
NumericRows(nd, nj, nn) ==
    Repeat(<<Txt(<<"7">>), Num(1, 1)>>, nd) \o Repeat(<<Txt(X), Num(1, 1)>>, nj)
        \o Repeat(<<Null, Num(1, 1)>>, nn)
NumericSchema == << <<<<"v">>, "object">>, <<<<"n">>, "float64">> >>
NumericTables ==
    { FromRows(NumericSchema, NumericRows(nd, nj, nn)) :
        nd \in 0..MaxNumericRows, nj \in 0..MaxNumericRows, nn \in 0..MaxNumericRows }
NumericConfigs == { DefaultConfig, [DefaultConfig EXCEPT !.missing_mode = "drop_rows"] }

InitNumeric ==
    InitPipeline({ t \in NumericTables : NRows(t) <= MaxNumericRows }, NumericConfigs)

SpecNumeric == InitNumeric /\ [][Next]_vars

\* Five text columns; a row is k missing cells (none, or two and more, around
\* the 0.4 of the filter), then a first cell, then cells that repeat the first
\* cell or hold the word x.
Long25 == Repeat("y", NoiseTextLen)
NoiseSchema ==
    << <<<<"a">>, "object">>, <<<<"b">>, "object">>, <<<<"c">>, "object">>,
       <<<<"d">>, "object">>, <<<<"e">>, "object">> >>
NoiseFirst ==
    { Txt(X), Txt(<<"#", "x">>), Txt(<<"P", "i", "p", " ", "x">>), Txt(Long25),
      Txt(Long25 \o <<"y">>) }
NoiseRows ==
    { Repeat(Null, Len(NoiseSchema)) }
    \cup UNION { { Repeat(Null, k) \o <<first>> \o Repeat(rest, Len(NoiseSchema) - k - 1) :
                     k \in {0} \cup 2..(Len(NoiseSchema) - 1), rest \in { first, Txt(X) } } :
                 first \in NoiseFirst }
\* tables past the row limit of the noise filter
BigTables ==
    { FromRows(NoiseSchema, Repeat(row, NoiseRowLimit + 1)) :
        row \in { Repeat(Null, Len(NoiseSchema)),
                  <<Txt(<<"#", "x">>)>> \o Repeat(Null, Len(NoiseSchema) - 1) } }

InitNoise ==
    InitPipeline(Tables(NoiseSchema, NoiseRows, MaxNoiseRows) \cup BigTables, { DefaultConfig })

SpecNoise == InitNoise /\ [][Next]_vars

\* Ten text columns; a row is k missing cells (none, or seven and more, around
\* the 0.8 of the loop), then cells with the word x.
TrimSchema ==
    [j \in 1..10 |-> << <<<<"a">>, <<"b">>, <<"c">>, <<"d">>, <<"e">>, <<"f">>, <<"g">>,
                           <<"h">>, <<"i">>, <<"j">>>>[j], "object" >>]
TrimRows ==
    { Repeat(Null, k) \o Repeat(Txt(X), Len(TrimSchema) - k) : k \in {0} \cup 7..Len(TrimSchema) }

InitTrim == InitPipeline(Tables(TrimSchema, TrimRows, MaxTrimRows) \cup BigTables, { DefaultConfig })

SpecTrim == InitTrim /\ [][Next]_vars

\* Three text columns whose names A, a, a_1 meet after lowercasing; every cell
\* holds one of two words.
Y == <<"y">>
DupSchema == << <<<<"A">>, "object">>, <<<<"a">>, "object">>, <<<<"a", "_", "1">>, "object">> >>
DupRows == { <<p, q, r>> : p, q, r \in { Txt(X), Txt(Y) } }
DupConfigs == { [DefaultConfig EXCEPT !.lowercase_categoricals = lc] : lc \in BOOLEAN }

InitDupCols == InitPipeline(Tables(DupSchema, DupRows, MaxDupRows), DupConfigs)

SpecDupCols == InitDupCols /\ [][Next]_vars

\* A text column of placeholder words, bare, in capitals, inside spaces and
\* inside a longer word, beside a float column.
PlaceholderSchema == << <<<<"a">>, "object">>, <<<<"n">>, "float64">> >>
PlaceholderCells ==
    { Null, Txt(X), Txt(<<"n", "a", "n">>), Txt(<<"N", "a", "N">>),
      Txt(<<" ", "N", "a", "N", " ">>), Txt(<<"N", "o", "n", "e">>),
      Txt(<<"n", "o", "n", "e", " ">>), Txt(<<"n", "a", "n", "n", "y">>) }
PlaceholderRows == { <<c, f>> : c \in PlaceholderCells, f \in { Null, Num(1, 1) } }

InitPlaceholder ==
    InitPipeline(Tables(PlaceholderSchema, PlaceholderRows, MaxPlaceholderRows), { DefaultConfig })

SpecPlaceholder == InitPlaceholder /\ [][Next]_vars

---------------------------------------------------------------------------
(* perform_merge_operation, merge.py lines 159-205. *)

\* a caller handed the new table with metadata that lack success where the
\* merge function raised
OutcomeUnwrapped(r) ==
    IF r.kind = "returned" THEN [kind |-> "returned", df |-> r.df, metadata |-> r.metadata]
    ELSE [kind |-> "returned", df |-> r.new, metadata |-> [success |-> FALSE]]

\* what the caller of a merge function gets: the pair returned, or MergeError
Outcome(r) ==
    IF r.kind = "returned" THEN [kind |-> "returned", df |-> r.df, metadata |-> r.metadata]
    ELSE [kind |-> "MergeError"]

\* a keep_separate that hands back the new table without its rows
KeepSeparateEmpty(new) ==
    [kind |-> "returned", df |-> KeepRows(new, {}),
     metadata |-> [strategy |-> "keep_separate", new_rows |-> NRows(new),
                   new_columns |-> ColNames(new)]]

\* lines 192-198: the pair returned for keep_separate
KeepSeparate(new) ==
    [kind |-> "returned", df |-> new,
     metadata |-> [strategy |-> "keep_separate", new_rows |-> NRows(new),
                   new_columns |-> ColNames(new)]]

\* lines 178-179: pd.read_sql_table raises when the table cannot be read
CanLoad == margs.dataset_id \in DOMAIN store.cleaned

\* a call with a failed load, or one that line 186 or line 201 ends
RaiseMergeError ==
    /\ mresult' = [kind |-> "MergeError"]
    /\ mpc' = "done"
    /\ UNCHANGED <<store, margs, existing_df, new_df, new_given, store_given, session, retry>>

\* lines 181-182
CallAppendBelow ==
    /\ mpc = "call" /\ margs.merge_strategy = "append_below" /\ CanLoad
    /\ LET loaded == store.cleaned[margs.dataset_id]
       IN \E in_new \in Orders(Range(ColNames(loaded)) \ Range(ColNames(new_df))),
             in_existing \in Orders(Range(ColNames(new_df)) \ Range(ColNames(loaded))) :
            LET r == AppendBelowMerge(loaded, new_df, in_new, in_existing)
            IN /\ existing_df' = r.existing
               /\ new_df' = r.new
               /\ mresult' = Outcome(r)
    /\ mpc' = "done"
    /\ UNCHANGED <<store, margs, new_given, store_given, session, retry>>
    /\ UNCHANGED <<pvars, nvars>>

\* lines 184-187
CallMergeOnColumn ==
    /\ mpc = "call" /\ margs.merge_strategy = "merge_on_column" /\ CanLoad
    /\ margs.merge_column # << >>
    /\ LET r == MergeOnColumnJoin(store.cleaned[margs.dataset_id], new_df, margs.merge_column,
                                  margs.join_type, margs.prefix_conflicting_columns)
       IN /\ existing_df' = r.existing
          /\ new_df' = r.new
          /\ mresult' = Outcome(r)
    /\ mpc' = "done"
    /\ UNCHANGED <<store, margs, new_given, store_given, session, retry>>
    /\ UNCHANGED <<pvars, nvars>>

\* lines 189-198
CallKeepSeparate ==
    /\ mpc = "call" /\ margs.merge_strategy = "keep_separate" /\ CanLoad
    /\ existing_df' = store.cleaned[margs.dataset_id]
    /\ mresult' = KeepSeparate(new_df)
    /\ mpc' = "done"
    /\ UNCHANGED <<store, margs, new_df, new_given, store_given, session, retry>>
    /\ UNCHANGED <<pvars, nvars>>

\* lines 185-186: merge_on_column without a merge column
CallWithoutColumn ==
    /\ mpc = "call" /\ margs.merge_strategy = "merge_on_column" /\ CanLoad
    /\ margs.merge_column = << >>
    /\ existing_df' = store.cleaned[margs.dataset_id]
    /\ mresult' = [kind |-> "MergeError"]
    /\ mpc' = "done"
    /\ UNCHANGED <<store, margs, new_df, new_given, store_given, session, retry>>
    /\ UNCHANGED <<pvars, nvars>>

\* lines 200-201
CallUnknownStrategy ==
    /\ mpc = "call" /\ CanLoad
    /\ margs.merge_strategy \notin { "append_below", "merge_on_column", "keep_separate" }
    /\ existing_df' = store.cleaned[margs.dataset_id]
    /\ mresult' = [kind |-> "MergeError"]
    /\ mpc' = "done"
    /\ UNCHANGED <<store, margs, new_df, new_given, store_given, session, retry>>
    /\ UNCHANGED <<pvars, nvars>>

\* lines 178-179 and 203-205: the load raises, whatever the strategy
CallLoadFails ==
    /\ mpc = "call" /\ ~CanLoad
    /\ RaiseMergeError
    /\ UNCHANGED <<pvars, nvars>>

---------------------------------------------------------------------------
(* The inputs of perform_merge_operation. *)

Id == <<"i", "d">>
Name == <<"n", "a", "m", "e">>
Age == <<"a", "g", "e">>
Name1 == Name \o <<"_", "1">>

\* the columns of the tables: id and age hold numbers, the others texts
MergeDtype(name) == IF name \in { Id, Age } THEN "float64" ELSE "object"
ExistingSchemas ==
    { <<Id, Name>>, <<Id, Name, NewPrefix \o Name>>, <<Id, Name, Name \o NewSuffix>>, <<Name>> }
\* the last one carries a label twice, as standardize_column_names can leave it
NewSchemas == { <<Id, Age>>, <<Id, Name>>, <<Age>>, <<Name, Name1, Name1>> }

\* the tables of up to n rows over a schema: the id cells range over the keys,
\* every other cell holds the number of its row, alone or after a word, so
\* that no two rows of a table are equal
MergeTables(Schemas, word, n) ==
    UNION { { [j \in 1..Len(schema) |->
                 [name |-> schema[j], dtype |-> MergeDtype(schema[j]),
                  vals |-> [i \in 1..Len(keys) |->
                              IF schema[j] = Id THEN keys[i]
                              ELSE IF schema[j] = Age THEN Num(i, 1)
                              ELSE IF schema[j] = Name THEN Txt(word \o IntToStr(i))
                              ELSE Txt(<<"z">> \o IntToStr(i))]]] :
              keys \in { k \in SeqsUpTo({ Num(1, 1), Num(2, 1) }, n) :
                           Id \in Range(schema) \/ k \in { << >>, <<Num(1, 1)>> } } } :
            schema \in Schemas }

\* the Dataset row an upload leaves for a cleaned table
DatasetRow(t) ==
    [n_rows_clean |-> NRows(t), n_cols_clean |-> NCols(t), is_multi_source |-> FALSE,
     source_count |-> 1, merge_history |-> << >>]

---------------------------------------------------------------------------
(* The request handlers, routers/datasets.py, and update_dataset_with_merge. *)

\* the handler answers: the response, or the HTTPException raised
Respond(status, error) ==
    /\ mresult' = [kind |-> "response", status |-> status, error |-> error]
    /\ mpc' = "responded"

\* the id SQLite gives the next Dataset row
NextId(s) ==
    IF DOMAIN s.datasets = {} THEN 1
    ELSE 1 + CHOOSE n \in DOMAIN s.datasets : \A o \in DOMAIN s.datasets : o <= n

\* lines 831-833 and 1046-1048: the dataset is not there
RequestNotFound ==
    /\ mpc = "request"
    /\ margs.dataset_id \notin DOMAIN store.datasets
    /\ Respond(404, "HTTPException")
    /\ UNCHANGED <<store, margs, existing_df, new_df, new_given, store_given, session, retry>>
    /\ UNCHANGED <<pvars, nvars>>

\* lines 831-857 and 923-925: the new file is read and cleaned, then the
\* strategy picks the branch
AddDataBegin ==
    /\ mpc = "request" /\ margs.handler = "add_data"
    /\ margs.dataset_id \in DOMAIN store.datasets
    /\ mpc' = IF margs.merge_strategy = "keep_separate" THEN "ks_dataset" ELSE "call"
    /\ UNCHANGED <<store, margs, existing_df, new_df, new_given, store_given, mresult,
                   session, retry>>
    /\ UNCHANGED <<pvars, nvars>>

\* lines 859-871: the Dataset row of the separate dataset is committed
KsCommitDataset ==
    /\ mpc = "ks_dataset"
    /\ \E fails \in BOOLEAN :
          IF fails
          THEN /\ Respond(500, "Exception")
               /\ UNCHANGED <<store, session>>
          ELSE /\ store' = [store EXCEPT !.datasets = @ @@ (NextId(store) :> DatasetRow(new_df))]
               /\ session' = [id |-> NextId(store)]
               /\ mpc' = "ks_save"
               /\ UNCHANGED mresult
    /\ UNCHANGED <<margs, existing_df, new_df, new_given, store_given, retry>>
    /\ UNCHANGED <<pvars, nvars>>

\* line 873 and pipeline.py lines 9-15
KsSave ==
    /\ mpc = "ks_save"
    /\ \E err \in { "none", "locked", "other" } :
          /\ IF err # "none"
             THEN /\ Respond(500, "Exception")
                  /\ UNCHANGED store
             ELSE /\ store' = [store EXCEPT !.cleaned = (session.id :> new_df) @@ @]
                  /\ mpc' = "ks_source"
                  /\ UNCHANGED mresult
          /\ retry' = [retry EXCEPT !.last_error = err]
    /\ UNCHANGED <<margs, existing_df, new_df, new_given, store_given, session>>
    /\ UNCHANGED <<pvars, nvars>>

\* lines 876-921
KsCommitSource ==
    /\ mpc = "ks_source"
    /\ \E fails \in BOOLEAN :
          IF fails
          THEN /\ Respond(500, "Exception")
               /\ UNCHANGED store
          ELSE /\ store' = [store EXCEPT !.sources = @ \cup
                               { [dataset_id |-> session.id, rows_contributed |-> NRows(new_df),
                                  cols_contributed |-> NCols(new_df),
                                  merge_strategy |-> "keep_separate", merge_column |-> << >>,
                                  source_order |-> 1] }]
               /\ Respond(200, "none")
    /\ UNCHANGED <<margs, existing_df, new_df, new_given, store_given, session, retry>>
    /\ UNCHANGED <<pvars, nvars>>

\* lines 925-932 and 986-987: perform_merge_operation raised
MergeRefused ==
    /\ mpc = "done" /\ margs.handler = "add_data"
    /\ mresult.kind = "MergeError"
    /\ Respond(400, "MergeError")
    /\ UNCHANGED <<store, margs, existing_df, new_df, new_given, store_given, session, retry>>
    /\ UNCHANGED <<pvars, nvars>>

\* the entry update_dataset_with_merge appends to merge_history (lines 240-249)
HistoryEntry(row, merged_df, merge_metadata) ==
    [strategy |-> merge_metadata.strategy, rows_before |-> row.n_rows_clean,
     rows_after |-> NRows(merged_df), cols_before |-> row.n_cols_clean,
     cols_after |-> NCols(merged_df)]

\* merge.py lines 225-250: the Dataset row is read and changed in the session
UpdateDataset ==
    /\ mpc = "done" /\ margs.handler = "add_data"
    /\ mresult.kind = "returned"
    /\ \E fails \in BOOLEAN :
          IF fails
          THEN /\ Respond(400, "MergeError")
               /\ UNCHANGED session
          ELSE /\ session' =
                    [dataset |->
                        LET row == store.datasets[margs.dataset_id]
                        IN [n_rows_clean |-> NRows(mresult.df),
                            n_cols_clean |-> NCols(mresult.df),
                            is_multi_source |-> TRUE,
                            source_count |-> row.source_count + 1,
                            merge_history |->
                                Append(row.merge_history,
                                       HistoryEntry(row, mresult.df, mresult.metadata))]]
               /\ mpc' = "u_save"
               /\ UNCHANGED mresult
    /\ UNCHANGED <<store, margs, existing_df, new_df, new_given, store_given, retry>>
    /\ UNCHANGED <<pvars, nvars>>

\* merge.py line 253 and pipeline.py lines 9-15: to_sql replaces the cleaned
\* table outside the session.  A to_sql that fails leaves the old table or,
\* when the library has already dropped and recreated it, a table without rows.
UpdateSave ==
    /\ mpc = "u_save"
    /\ \E outcome \in { "written", "locked", "kept", "emptied" } :
          /\ IF outcome = "written"
             THEN /\ store' = [store EXCEPT !.cleaned[margs.dataset_id] = mresult.df]
                  /\ mpc' = "u_commit"
                  /\ UNCHANGED <<mresult, session>>
             ELSE /\ store' = IF outcome = "emptied"
                              THEN [store EXCEPT !.cleaned[margs.dataset_id] =
                                                    KeepRows(mresult.df, {})]
                              ELSE store
                  /\ session' = << >>
                  /\ Respond(400, "MergeError")
          /\ retry' = [retry EXCEPT !.last_error =
                           IF outcome = "written" THEN "none"
                           ELSE IF outcome = "locked" THEN "locked" ELSE "other"]
    /\ UNCHANGED <<margs, existing_df, new_df, new_given, store_given>>
    /\ UNCHANGED <<pvars, nvars>>

\* merge.py lines 256-280: the source row is added and the session committed,
\* or the commit fails and the session is rolled back
UpdateCommit ==
    /\ mpc = "u_commit"
    /\ \E fails \in BOOLEAN :
          IF fails
          THEN /\ Respond(400, "MergeError")
               /\ UNCHANGED store
          ELSE /\ store' =
                    [store EXCEPT
                       !.datasets[margs.dataset_id] = session.dataset,
                       !.sources = @ \cup
                          { [dataset_id |-> margs.dataset_id,
                             rows_contributed |->
                                 IF "rows_added" \in DOMAIN mresult.metadata
                                 THEN mresult.metadata.rows_added ELSE NRows(mresult.df),
                             cols_contributed |-> NCols(mresult.df),
                             merge_strategy |-> mresult.metadata.strategy,
                             merge_column |->
                                 IF "merge_column" \in DOMAIN mresult.metadata
                                 THEN mresult.metadata.merge_column ELSE << >>,
                             source_order |->
                                 1 + Cardinality({ s \in store.sources :
                                                     s.dataset_id = margs.dataset_id })] }]
               /\ Respond(200, "none")
    /\ session' = << >>
    /\ UNCHANGED <<margs, existing_df, new_df, new_given, store_given, retry>>
    /\ UNCHANGED <<pvars, nvars>>

\* line 148
MaxAttempts == 5

\* lines 155 and 405 with a wait that doubles: 0.3 * 2 ** (attempt - 1)
SleepTenthsDoubling(attempt) == 3 * 2 ^ (attempt - 1)

\* lines 155 and 405: sleep_time = 0.3 * attempt, in tenths of a second
SleepTenths(attempt) == 3 * attempt

\* a request begins: corruption_stage = 0, the first attempt of the write loop,
\* no sleep of that loop yet and no table write yet
RetryStart == [corruption_stage |-> 0, attempt |-> 1, waits |-> << >>, last_error |-> "none"]

\* lines 176-195: the except clause of upload_dataset for an error of the kind
\* err.  reset_db.py lines 7-33 and 45-48: attempt_corruption_recovery drops
\* every table of the database (escalate=False) or deletes the database file
\* (escalate=True) and creates the empty schema again.
UploadExcept(err) ==
    /\ session' = << >>
    /\ IF err = "malformed" /\ retry.corruption_stage < 2
       THEN /\ store' = EmptyStore
            /\ retry' = [retry EXCEPT !.corruption_stage = @ + 1, !.attempt = 1,
                                      !.waits = << >>, !.last_error = err]
            /\ mpc' = "up_dataset"
            /\ UNCHANGED mresult
       ELSE /\ Respond(IF err = "malformed" THEN 500 ELSE 400, "HTTPException")
            /\ retry' = [retry EXCEPT !.last_error = err]
            /\ UNCHANGED store

\* lines 125-147: the Dataset row of the upload is committed and the raw table
\* written; a raw table that cannot be written is only logged.  The file of
\* the model is clean as uploaded: its raw table is its cleaned table.
UploadCommitDataset ==
    /\ mpc = "up_dataset"
    /\ \E err \in { "none", "raw_failed", "malformed", "other" } :
          IF err \in { "none", "raw_failed" }
          THEN /\ store' = [store EXCEPT
                               !.datasets = @ @@ (NextId(store) :> DatasetRow(new_df)),
                               !.raw = IF err = "none" THEN (NextId(store) :> new_df) @@ @
                                       ELSE @]
               /\ session' = [id |-> NextId(store)]
               /\ mpc' = "up_save"
               /\ UNCHANGED <<mresult, retry>>
          ELSE UploadExcept(err)
    /\ UNCHANGED <<margs, existing_df, new_df, new_given, store_given>>
    /\ UNCHANGED <<pvars, nvars>>

\* lines 148-160: the cleaned table is written, again after a locked database
\* until the attempts are used up
UploadSave ==
    /\ mpc = "up_save"
    /\ \E err \in { "none", "locked", "malformed", "other" } :
          IF err = "none"
          THEN /\ store' = [store EXCEPT !.cleaned = (session.id :> new_df) @@ @]
               /\ mpc' = "up_report"
               /\ retry' = [retry EXCEPT !.last_error = err]
               /\ UNCHANGED <<mresult, session>>
          ELSE IF err = "locked" /\ retry.attempt < MaxAttempts
          THEN /\ retry' = [retry EXCEPT !.attempt = @ + 1, !.last_error = err,
                                         !.waits = Append(@, SleepTenths(retry.attempt))]
               /\ UNCHANGED <<store, mpc, mresult, session>>
          ELSE UploadExcept(err)
    /\ UNCHANGED <<margs, existing_df, new_df, new_given, store_given>>
    /\ UNCHANGED <<pvars, nvars>>

\* lines 161-175: the cleaning report is committed
UploadCommitReport ==
    /\ mpc = "up_report"
    /\ \E err \in { "none", "malformed", "other" } :
          IF err = "none"
          THEN /\ store' = [store EXCEPT !.reports = @ \cup { session.id }]
               /\ session' = << >>
               /\ Respond(200, "none")
               /\ UNCHANGED retry
          ELSE UploadExcept(err)
    /\ UNCHANGED <<margs, existing_df, new_df, new_given, store_given>>
    /\ UNCHANGED <<pvars, nvars>>

\* lines 378-396: reclean_dataset reads the cleaned table and cleans it again
RecleanBegin ==
    /\ mpc = "request" /\ margs.handler = "reclean"
    /\ margs.dataset_id \in DOMAIN store.datasets
    /\ IF margs.dataset_id \in DOMAIN store.cleaned
       THEN /\ session' = [df_new |-> RunCleaningPipeline(store.cleaned[margs.dataset_id],
                                                          DefaultConfig)]
            /\ mpc' = "rc_save"
            /\ UNCHANGED mresult
       ELSE /\ Respond(500, "HTTPException")
            /\ UNCHANGED session
    /\ UNCHANGED <<store, margs, existing_df, new_df, new_given, store_given, retry>>
    /\ UNCHANGED <<pvars, nvars>>

\* lines 397-408 and 421-423: the cleaned table is written, again after a
\* locked database until the attempts are used up
RecleanSave ==
    /\ mpc = "rc_save"
    /\ \E err \in { "none", "locked", "other" } :
          IF err = "none"
          THEN /\ store' = [store EXCEPT !.cleaned[margs.dataset_id] = session.df_new]
               /\ mpc' = "rw_commit"
               /\ retry' = [retry EXCEPT !.last_error = err]
               /\ UNCHANGED <<mresult, session>>
          ELSE IF err = "locked" /\ retry.attempt < MaxAttempts
          THEN /\ retry' = [retry EXCEPT !.attempt = @ + 1, !.last_error = err,
                                         !.waits = Append(@, SleepTenths(retry.attempt))]
               /\ UNCHANGED <<store, mpc, mresult, session>>
          ELSE /\ Respond(500, "HTTPException")
               /\ retry' = [retry EXCEPT !.last_error = err]
               /\ session' = << >>
               /\ UNCHANGED store
    /\ UNCHANGED <<margs, existing_df, new_df, new_given, store_given>>
    /\ UNCHANGED <<pvars, nvars>>

\* lines 441-459: reprocess_from_raw reads the raw table, or the cleaned table
\* when there is none, and cleans it
ReprocessBegin ==
    /\ mpc = "request" /\ margs.handler = "reprocess"
    /\ margs.dataset_id \in DOMAIN store.datasets
    /\ IF margs.dataset_id \in DOMAIN store.raw \cup DOMAIN store.cleaned
       THEN /\ session' =
                 [df_new |-> RunCleaningPipeline(
                                 IF margs.dataset_id \in DOMAIN store.raw
                                 THEN store.raw[margs.dataset_id]
                                 ELSE store.cleaned[margs.dataset_id], DefaultConfig)]
            /\ mpc' = "rp_save"
            /\ UNCHANGED mresult
       ELSE /\ Respond(404, "HTTPException")
            /\ UNCHANGED session
    /\ UNCHANGED <<store, margs, existing_df, new_df, new_given, store_given, retry>>
    /\ UNCHANGED <<pvars, nvars>>

\* lines 460-461 and 481-483: the cleaned table is written, once
ReprocessSave ==
    /\ mpc = "rp_save"
    /\ \E err \in { "none", "locked", "other" } :
          /\ IF err = "none"
             THEN /\ store' = [store EXCEPT !.cleaned =
                                  (margs.dataset_id :> session.df_new) @@ @]
                  /\ mpc' = "rw_commit"
                  /\ UNCHANGED <<mresult, session>>
             ELSE /\ Respond(500, "HTTPException")
                  /\ session' = << >>
                  /\ UNCHANGED store
          /\ retry' = [retry EXCEPT !.last_error = err]
    /\ UNCHANGED <<margs, existing_df, new_df, new_given, store_given>>
    /\ UNCHANGED <<pvars, nvars>>

\* lines 409-423 and 462-483: the Dataset row takes the new shape and the
\* report is written, or the commit fails and the session is rolled back
RewriteCommit ==
    /\ mpc = "rw_commit"
    /\ \E fails \in BOOLEAN :
          IF fails
          THEN /\ Respond(500, "HTTPException")
               /\ UNCHANGED store
          ELSE /\ store' = [store EXCEPT
                               !.datasets[margs.dataset_id].n_rows_clean = NRows(session.df_new),
                               !.datasets[margs.dataset_id].n_cols_clean = NCols(session.df_new),
                               !.reports = @ \cup { margs.dataset_id }]
               /\ Respond(200, "none")
    /\ session' = << >>
    /\ UNCHANGED <<margs, existing_df, new_df, new_given, store_given, retry>>
    /\ UNCHANGED <<pvars, nvars>>

\* lines 1046-1048 and 1055-1072: the preview cleans the file and previews the
\* merge of the strategies append_below and merge_on_column
PreviewBegin ==
    /\ mpc = "request" /\ margs.handler = "preview"
    /\ margs.dataset_id \in DOMAIN store.datasets
    /\ mpc' = "call"
    /\ UNCHANGED <<store, margs, existing_df, new_df, new_given, store_given, mresult,
                   session, retry>>
    /\ UNCHANGED <<pvars, nvars>>

\* lines 1074-1105: the response reads cleaned_df after the merge call
PreviewRespond ==
    /\ mpc = "done" /\ margs.handler = "preview"
    /\ mresult' = [kind |-> "response", status |-> 200, error |-> "none",
                   success |-> (mresult.kind = "returned"),
                   new_data_shape |-> [rows |-> NRows(new_df), cols |-> NCols(new_df)]]
    /\ mpc' = "responded"
    /\ UNCHANGED <<store, margs, existing_df, new_df, new_given, store_given, session, retry>>
    /\ UNCHANGED <<pvars, nvars>>

\* where a call or a request starts
StartPc(a) ==
    IF a.handler = "call" THEN "call" ELSE IF a.handler = "upload" THEN "up_dataset" ELSE "request"

\* the requests: one-row tables, into dataset 1 or the missing dataset 2
RequestArgs ==
    { [handler |-> "add_data", seq |-> 1, dataset_id |-> d, merge_strategy |-> s,
       merge_column |-> Id, join_type |-> "outer", prefix_conflicting_columns |-> TRUE] :
        d \in { 1, 2 }, s \in { "append_below", "merge_on_column", "keep_separate", "replace" } }
    \cup { [handler |-> "preview", seq |-> 1, dataset_id |-> 1, merge_strategy |-> s,
            merge_column |-> Id, join_type |-> "outer", prefix_conflicting_columns |-> TRUE] :
             s \in { "append_below", "merge_on_column" } }
    \cup { [handler |-> h, seq |-> 1, dataset_id |-> d, merge_strategy |-> "none",
            merge_column |-> << >>, join_type |-> "outer",
            prefix_conflicting_columns |-> TRUE] :
             h \in { "reclean", "reprocess" }, d \in { 1, 2 } }
    \cup { [handler |-> "upload", seq |-> 1, dataset_id |-> 0, merge_strategy |-> "none",
            merge_column |-> << >>, join_type |-> "outer",
            prefix_conflicting_columns |-> TRUE] }

OneRow(schema, word) ==
    CHOOSE t \in MergeTables({ schema }, word, 1) : NRows(t) = 1 /\ t[1].vals[1] = Num(1, 1)
RequestTable == OneRow(<<Id, Age>>, Y)

\* the next request arrives once the one before is answered
NextRequest ==
    /\ mpc = "responded" /\ margs.seq < MaxRequests
    /\ \E a \in RequestArgs :
          /\ margs' = [a EXCEPT !.seq = margs.seq + 1]
          /\ mpc' = StartPc(a)
    /\ new_df' = RequestTable /\ new_given' = RequestTable
    /\ store_given' = store
    /\ existing_df' = << >> /\ mresult' = [kind |-> "none"]
    /\ session' = << >> /\ retry' = RetryStart
    /\ UNCHANGED store
    /\ UNCHANGED <<pvars, nvars>>

NextMerge ==
    CallAppendBelow \/ CallMergeOnColumn \/ CallKeepSeparate \/ CallWithoutColumn
        \/ CallUnknownStrategy \/ CallLoadFails
        \/ RequestNotFound \/ AddDataBegin \/ KsCommitDataset \/ KsSave \/ KsCommitSource
        \/ MergeRefused \/ UpdateDataset \/ UpdateSave \/ UpdateCommit
        \/ UploadCommitDataset \/ UploadSave \/ UploadCommitReport
        \/ RecleanBegin \/ RecleanSave \/ ReprocessBegin \/ ReprocessSave \/ RewriteCommit
        \/ PreviewBegin \/ PreviewRespond \/ NextRequest

\* the direct calls of perform_merge_operation
MergeArgs ==
    { [handler |-> "call", seq |-> 1, dataset_id |-> 1, merge_strategy |-> "merge_on_column",
       merge_column |-> c, join_type |-> j, prefix_conflicting_columns |-> p] :
        c \in { << >>, Id, Age }, j \in JoinTypes \cup { "cross" }, p \in BOOLEAN }
    \cup { [handler |-> "call", seq |-> 1, dataset_id |-> d, merge_strategy |-> s,
            merge_column |-> << >>, join_type |-> "outer",
            prefix_conflicting_columns |-> TRUE] :
             d \in { 1, 2 }, s \in { "append_below", "merge_on_column", "keep_separate", "replace" } }

\* a second dataset, which no call and no request names
Other == 3
OtherTable == OneRow(<<Id, Name>>, <<"b">>)

\* the database after the uploads of dataset 1 (table t, a file that was clean
\* as uploaded) and the other dataset, uploaded before raw tables were kept
StoreOf(t) ==
    [cleaned |-> (1 :> t) @@ (Other :> OtherTable),
     raw |-> (1 :> t),
     datasets |-> (1 :> DatasetRow(t)) @@ (Other :> DatasetRow(OtherTable)),
     sources |-> {}, reports |-> { 1, Other }]

InitMerge ==
    /\ PipelineIdle
    /\ NamesIdle
    /\ \E t \in MergeTables(ExistingSchemas, X, MaxMergeRows) : store = StoreOf(t)
    /\ store_given = store
    /\ new_df \in MergeTables(NewSchemas, Y, MaxMergeRows)
    /\ new_given = new_df
    /\ margs \in MergeArgs \cup RequestArgs
    /\ margs.handler # "call" =>
          store.cleaned[1] = OneRow(<<Id, Name>>, X) /\ new_df = RequestTable
    /\ mpc = StartPc(margs) /\ mresult = [kind |-> "none"] /\ existing_df = << >>
    /\ session = << >> /\ retry = RetryStart

SpecMerge == InitMerge /\ [][NextMerge]_vars

---------------------------------------------------------------------------
(* Concurrent add-data requests with the strategy append_below against     *)
(* dataset 1.  Each request runs add_data_to_dataset in its own thread     *)
(* with its own ORM session; nothing in the component orders them.  Here   *)
(* mpc, new_df, new_given, existing_df, mresult and session hold one value *)
(* per request, and a step is one read or one write of the database, which *)
(* the database serializes.                                                *)

Requests == 1..MaxConcurrent

\* the file of request p: one row, with an id no other table has
ConcurrentUpload(p) ==
    FromRows(<< <<Id, "float64">>, <<Age, "float64">> >>, << <<Num(p + 2, 1), Num(p, 1)>> >>)

ConcurrentArgs ==
    [handler |-> "add_data", seq |-> 1, dataset_id |-> 1, merge_strategy |-> "append_below",
     merge_column |-> << >>, join_type |-> "outer", prefix_conflicting_columns |-> TRUE]

\* the answer of request p
RespondTo(p, status, error) ==
    /\ mresult' = [mresult EXCEPT ![p] = [kind |-> "response", status |-> status, error |-> error]]
    /\ mpc' = [mpc EXCEPT ![p] = "responded"]

\* datasets.py lines 925-932 and merge.py lines 176-183: request p reads the
\* cleaned table and appends its file below it, in memory
ConcurrentMerge ==
    \E p \in Requests :
       /\ mpc[p] = "call" /\ CanLoad
       /\ LET loaded == store.cleaned[margs.dataset_id]
          IN \E in_new \in Orders(Range(ColNames(loaded)) \ Range(ColNames(new_df[p]))),
                in_existing \in Orders(Range(ColNames(new_df[p])) \ Range(ColNames(loaded))) :
               LET r == AppendBelowMerge(loaded, new_df[p], in_new, in_existing)
               IN /\ existing_df' = [existing_df EXCEPT ![p] = r.existing]
                  /\ new_df' = [new_df EXCEPT ![p] = r.new]
                  /\ mresult' = [mresult EXCEPT ![p] = Outcome(r)]
       /\ mpc' = [mpc EXCEPT ![p] = "done"]
       /\ UNCHANGED <<store, margs, new_given, store_given, session, retry>>
       /\ UNCHANGED <<pvars, nvars>>

\* merge.py lines 225-250 in the session of request p
ConcurrentUpdateDataset ==
    \E p \in Requests :
       /\ mpc[p] = "done"
       /\ \E fails \in BOOLEAN :
             IF fails \/ mresult[p].kind = "MergeError"
             THEN /\ RespondTo(p, 400, "MergeError")
                  /\ UNCHANGED session
             ELSE /\ session' =
                       [session EXCEPT ![p] =
                          [dataset |->
                              LET row == store.datasets[margs.dataset_id]
                              IN [n_rows_clean |-> NRows(mresult[p].df),
                                  n_cols_clean |-> NCols(mresult[p].df),
                                  is_multi_source |-> TRUE,
                                  source_count |-> row.source_count + 1,
                                  merge_history |->
                                      Append(row.merge_history,
                                             HistoryEntry(row, mresult[p].df,
                                                          mresult[p].metadata))]]]
                  /\ mpc' = [mpc EXCEPT ![p] = "u_save"]
                  /\ UNCHANGED mresult
       /\ UNCHANGED <<store, margs, existing_df, new_df, new_given, store_given, retry>>
       /\ UNCHANGED <<pvars, nvars>>

\* merge.py line 253: request p replaces the cleaned table by its merged table
ConcurrentUpdateSave ==
    \E p \in Requests :
       /\ mpc[p] = "u_save"
       /\ \E outcome \in { "written", "kept", "emptied" } :
             IF outcome = "written"
             THEN /\ store' = [store EXCEPT !.cleaned[margs.dataset_id] = mresult[p].df]
                  /\ mpc' = [mpc EXCEPT ![p] = "u_commit"]
                  /\ UNCHANGED <<mresult, session>>
             ELSE /\ store' = IF outcome = "emptied"
                              THEN [store EXCEPT !.cleaned[margs.dataset_id] =
                                                    KeepRows(mresult[p].df, {})]
                              ELSE store
                  /\ session' = [session EXCEPT ![p] = << >>]
                  /\ RespondTo(p, 400, "MergeError")
       /\ UNCHANGED <<margs, existing_df, new_df, new_given, store_given, retry>>
       /\ UNCHANGED <<pvars, nvars>>

\* merge.py lines 256-280 and datasets.py lines 943-984: the session of
\* request p is committed and the request answered
ConcurrentUpdateCommit ==
    \E p \in Requests :
       /\ mpc[p] = "u_commit"
       /\ \E fails \in BOOLEAN :
             IF fails
             THEN /\ RespondTo(p, 400, "MergeError")
                  /\ UNCHANGED store
             ELSE /\ store' =
                       [store EXCEPT
                          !.datasets[margs.dataset_id] = session[p].dataset,
                          !.sources = @ \cup
                             { [dataset_id |-> margs.dataset_id,
                                rows_contributed |-> mresult[p].metadata.rows_added,
                                cols_contributed |-> NCols(mresult[p].df),
                                merge_strategy |-> mresult[p].metadata.strategy,
                                merge_column |-> << >>,
                                source_order |->
                                    1 + Cardinality({ s \in store.sources :
                                                        s.dataset_id = margs.dataset_id })] }]
                  /\ RespondTo(p, 200, "none")
       /\ session' = [session EXCEPT ![p] = << >>]
       /\ UNCHANGED <<margs, existing_df, new_df, new_given, store_given, retry>>
       /\ UNCHANGED <<pvars, nvars>>

NextConcurrent ==
    ConcurrentMerge \/ ConcurrentUpdateDataset \/ ConcurrentUpdateSave \/ ConcurrentUpdateCommit

InitConcurrent ==
    /\ PipelineIdle
    /\ NamesIdle
    /\ \E t \in MergeTables({ <<Id, Name>>, <<Id, Age>> }, X, MaxMergeRows) : store = StoreOf(t)
    /\ store_given = store
    /\ margs = ConcurrentArgs
    /\ new_df = [p \in Requests |-> ConcurrentUpload(p)]
    /\ new_given = new_df
    /\ mpc = [p \in Requests |-> "call"]
    /\ mresult = [p \in Requests |-> [kind |-> "none"]]
    /\ existing_df = [p \in Requests |-> << >>]
    /\ session = [p \in Requests |-> << >>]
    /\ retry = RetryStart

SpecConcurrent == InitConcurrent /\ [][NextConcurrent]_vars

---------------------------------------------------------------------------
(* The properties. *)

\* the DataFrame a stage already run left behind: the one the next stage took
StageOrder ==
    <<"placeholder", "noise", "trim", "names", "dupcols", "infer", "normcat", "dedup",
      "missing", "done">>
StageIndex(stage) == CHOOSE i \in 1..Len(StageOrder) : StageOrder[i] = stage
Ran(stage) == stage \in DOMAIN hist
Before(stage) == hist[stage]
After(stage) ==
    LET next == StageOrder[StageIndex(stage) + 1]
    IN IF next \in DOMAIN hist THEN hist[next] ELSE df

\* C1: the pipeline reports rows_after <= rows_before and cols_after <=
\* cols_before, and no row-removing stage (noise filter, trailing-blank trim,
\* duplicate-row removal, missing-row drop) leaves more rows than it found.
C1_NeverGrows ==
    /\ \A stage \in {"noise", "trim", "dedup", "missing"} :
          Ran(stage) => NRows(After(stage)) <= NRows(Before(stage))
    /\ pc = "done" => /\ meta.rows_after <= meta.rows_before
                      /\ meta.cols_after <= meta.cols_before

C1_Witness ==
    /\ pc = "done"
    /\ meta.rows_after < meta.rows_before
    /\ meta.cols_after < meta.cols_before
    /\ meta.duplicates_removed > 0
    /\ meta.rows_dropped_for_missing > 0

PairwiseDistinct(s) == \A i, j \in 1..Len(s) : i # j => s[i] # s[j]

\* C2: the names standardize_column_names produces are pairwise distinct, for
\* every list of input names and either lowercase setting.
C2_NamesDistinct == names_calls = 1 => PairwiseDistinct(names_out)

\* C3: standardize_column_names is idempotent: a second call on its own output
\* gives the same list of names.
C3_Idempotent == [][names_calls = 1 => names_out' = names_out]_vars

\* pd.to_datetime of every cell of a column
ParsedColumn(col) == [i \in 1..Len(col.vals) |-> ToDatetime(col.vals[i])]

\* C4: a column on which date parsing is attempted and in which at least one
\* value parses gets semantic type date, is listed in
\* date_columns_standardized, and is emitted date-only (YYYY-MM-DD) exactly when
\* every parsed value has time-of-day midnight, null cells or not.
C4_DateOnlyIffMidnight ==
    Ran("infer") =>
        \A j \in 1..Len(Before("infer")) :
            LET col == Before("infer")[j]
                out == After("infer")[j]
                parsed == ParsedColumn(col)
                ok == { i \in 1..Len(col.vals) : parsed[i].ok }
            IN ShouldAttemptDate(col, cfg.date_cols) /\ ok # {}
               => /\ meta.dtype_inference[j].sem = "date"
                  /\ col.name \in Range(meta.date_columns_standardized)
                  /\ (\A i \in ok : out.vals[i] = Txt(parsed[i].date))
                        <=> (\A i \in ok : IsMidnight(parsed[i]))

\* C5: a cell that is null before normalize_categoricals is null after it.
C5_NullsStayNull ==
    Ran("normcat") =>
        \A j \in 1..Len(Before("normcat")) : \A i \in 1..NRows(Before("normcat")) :
            IsNa(Before("normcat")[j].vals[i]) => IsNa(After("normcat")[j].vals[i])

\* C6: a text column not classified as date becomes numeric if and only if at
\* least 90% of its non-null values convert (exactly 90% qualifies); then the
\* values that fail to convert become null; otherwise it is categorical.
C6_NumericAtNinetyPercent ==
    Ran("infer") =>
        \A j \in 1..Len(Before("infer")) :
            LET col == Before("infer")[j]
                out == After("infer")[j]
                sem == meta.dtype_inference[j].sem
                non_null == { i \in 1..Len(col.vals) : ~IsNa(col.vals[i]) }
                converts == { i \in non_null : ~IsNa(ToNumeric(col.vals[i])) }
            IN col.dtype = "object" /\ sem # "date" /\ non_null # {}
               => /\ sem = "numeric" <=> Cardinality(converts) * 10 >= 9 * Cardinality(non_null)
                  /\ sem = "numeric" => \A i \in non_null \ converts : IsNa(out.vals[i])
                  /\ sem # "numeric" => sem = "categorical"

\* C7: with missing_mode = drop_rows the pipeline drops exactly the rows whose
\* fraction of null cells is strictly greater than drop_row_missing_threshold,
\* and rows_dropped_for_missing is their number.  The rows are those of the
\* typed table, when no duplicate row stands between it and the drop.
C7_DropsSparseRows ==
    pc = "done" /\ cfg.missing_mode = "drop_rows" /\ meta.duplicates_removed = 0
    => LET T == Before("normcat")
           sparse == { i \in 1..NRows(T) :
                         NaFracGt(RowAt(T, i), cfg.drop_row_missing_threshold[1],
                                  cfg.drop_row_missing_threshold[2]) }
       IN /\ meta.rows_dropped_for_missing = Cardinality(sparse)
          /\ NRows(df) = NRows(T) - Cardinality(sparse)

\* the non-null cells of a row, compared as strings
NonNullStrs(row) == { CellStr(row[j]) : j \in { j \in 1..Len(row) : ~IsNa(row[j]) } }
\* (a) all non-null cells identical, and longer than 25 characters
BannerRow(row) ==
    \E s \in NonNullStrs(row) : Len(s) > NoiseTextLen /\ \A o \in NonNullStrs(row) : o = s
\* (b) null fraction above 0.4 and a cell that starts with a command prefix
CommandRow(row) ==
    /\ NaFracGt(row, 4, 10)
    /\ \E s \in NonNullStrs(row) : \E pat \in NoisePatterns : StartsWithCI(s, pat)
\* (c) no non-null cell at all
EmptyRow(row) == \A j \in 1..Len(row) : IsNa(row[j])

\* the table with the rows at the indices in `removed` taken out, order kept
Without(t, removed, out) ==
    /\ Len(out) = Len(t)
    /\ \A j \in 1..Len(t) :
          /\ out[j].name = t[j].name /\ out[j].dtype = t[j].dtype
          /\ Len(out[j].vals) = NRows(t) - Cardinality(removed)
          /\ \A i \in (1..NRows(t)) \ removed :
                out[j].vals[i - Cardinality({ r \in removed : r < i })] = t[j].vals[i]

\* C8 as claimed: with at most 1000 rows the noise filter removes a row iff it
\* is not row 0 and (a) or (b) holds; a row with no non-null cell is kept; with
\* more than 1000 rows nothing is removed; noise_rows_removed is the count.
C8_NoiseRule ==
    Ran("noise") =>
        LET T == Before("noise")
            removed == IF NRows(T) <= NoiseRowLimit
                       THEN { i \in 2..NRows(T) : BannerRow(RowAt(T, i)) \/ CommandRow(RowAt(T, i)) }
                       ELSE {}
        IN Without(T, removed, After("noise")) /\ meta.noise_rows_removed = Cardinality(removed)

\* C8 amended: ... iff it is not row 0 and (a), (b) or (c) it has no non-null
\* cell at all.
C8_NoiseRuleWithEmptyRows ==
    Ran("noise") =>
        LET T == Before("noise")
            removed == IF NRows(T) <= NoiseRowLimit
                       THEN { i \in 2..NRows(T) :
                                \/ BannerRow(RowAt(T, i)) \/ CommandRow(RowAt(T, i))
                                \/ EmptyRow(RowAt(T, i)) }
                       ELSE {}
        IN Without(T, removed, After("noise")) /\ meta.noise_rows_removed = Cardinality(removed)

C8_Witness ==
    /\ Ran("noise")
    /\ NRows(Before("noise")) = 2
    /\ BannerRow(RowAt(Before("noise"), 1))
    /\ EmptyRow(RowAt(Before("noise"), 2))
    /\ meta.noise_rows_removed = 1

C10_KeepsFirstOccurrences ==
    Ran("dedup") =>
        LET T == Before("dedup")
            R == After("dedup")
            first(row) == CHOOSE j \in 1..NRows(T) :
                             /\ RowAt(T, j) = row
                             /\ \A h \in 1..(j - 1) : RowAt(T, h) # row
        IN /\ ColNames(R) = ColNames(T)
           /\ \A i \in 1..NRows(R) : \E j \in 1..NRows(T) : RowAt(T, j) = RowAt(R, i)
           /\ \A j \in 1..NRows(T) : \E i \in 1..NRows(R) : RowAt(R, i) = RowAt(T, j)
           /\ \A i, h \in 1..NRows(R) : i < h => first(RowAt(R, i)) < first(RowAt(R, h))
           /\ meta.duplicates_removed = NRows(T) - NRows(R)

C10_Witness ==
    /\ Ran("dedup")
    /\ meta.duplicates_removed = 1
    /\ NRows(After("dedup")) = 2
    /\ RowAt(Before("dedup"), 1) = RowAt(Before("dedup"), 3)


\* C11: remove_duplicates is idempotent: applied to its own output it removes
\* zero rows and returns the same table.
C11_DedupIdempotent ==
    Ran("dedup") =>
        /\ After("dedup") = RemoveDuplicates(Before("dedup")).df
        /\ RemoveDuplicates(After("dedup")).removed = 0
        /\ RemoveDuplicates(After("dedup")).df = After("dedup")

C11_Witness ==
    /\ Ran("dedup")
    /\ NRows(Before("dedup")) = 3
    /\ RemoveDuplicates(Before("dedup")).removed = 2
    /\ RemoveDuplicates(After("dedup")).removed = 0

\* C12: the duplicate-column collapse removes a column exactly when its value
\* sequence equals that of an earlier column: the earliest column of each group
\* is kept, duplicate_columns_removed lists exactly the names of the removed
\* columns, the result has one column fewer per listed name, and no two
\* remaining columns have the same value sequence.
C12_CollapsesEqualColumns ==
    Ran("dupcols") =>
        LET T == Before("dupcols")
            R == After("dupcols")
            later == { j \in 1..NCols(T) : \E i \in 1..(j - 1) : T[i].vals = T[j].vals }
        IN /\ R = SelectIdx(T, (1..NCols(T)) \ later)
           /\ meta.duplicate_columns_removed = ColNames(SelectIdx(T, later))
           /\ NCols(R) = NCols(T) - Len(meta.duplicate_columns_removed)
           /\ \A i, j \in 1..NCols(R) : i # j => R[i].vals # R[j].vals

\* the cell of the column called name in row i of t, null when t has no such column
CellOr(t, name, i) ==
    IF name \in Range(ColNames(t))
    THEN t[CHOOSE h \in 1..Len(t) : t[h].name = name].vals[i]
    ELSE Null

\* the table the call loaded: the cleaned table stored when the call began
Loaded == store_given.cleaned[margs.dataset_id]

AppendReturned ==
    mpc = "done" /\ margs.merge_strategy = "append_below" /\ mresult.kind = "returned"

\* C13: append_below_merge returns a table whose columns are the union of the
\* two inputs' columns and whose rows are the existing rows followed by the new
\* rows: the existing columns come first in their order, then the columns only
\* the new table has, and a cell is null where the row's table had no such column.
C13_AppendBelowUnion ==
    AppendReturned =>
        LET E == Loaded
            N == new_given
            R == mresult.df
        IN /\ Range(ColNames(R)) = Range(ColNames(E)) \cup Range(ColNames(N))
           /\ NCols(R) = Cardinality(Range(ColNames(E)) \cup Range(ColNames(N)))
           /\ NRows(R) = NRows(E) + NRows(N)
           /\ SubSeq(ColNames(R), 1, NCols(E)) = ColNames(E)
           /\ \A j \in 1..NCols(R) :
                 /\ \A i \in 1..NRows(E) : R[j].vals[i] = CellOr(E, R[j].name, i)
                 /\ \A i \in 1..NRows(N) : R[j].vals[NRows(E) + i] = CellOr(N, R[j].name, i)
           /\ mresult.metadata.rows_after = NRows(E) + NRows(N)

C13_Witness ==
    /\ AppendReturned
    /\ ColNames(Loaded) = <<Id, Name>>
    /\ ColNames(new_given) = <<Id, Age>>
    /\ NRows(Loaded) = 2 /\ NRows(new_given) = 2
    /\ ColNames(mresult.df) = <<Id, Name, Age>>
    /\ mresult.df[2].vals = <<Txt(<<"x", "1">>), Txt(<<"x", "2">>), Null, Null>>
    /\ mresult.df[3].vals = <<Null, Null, Num(1, 1), Num(2, 1)>>

JoinReturned(how) ==
    /\ mpc = "done" /\ margs.merge_strategy = "merge_on_column" /\ mresult.kind = "returned"
    /\ margs.join_type = how

Min(a, b) == IF a <= b THEN a ELSE b
Max(a, b) == IF a >= b THEN a ELSE b

\* C14: merge_on_column_join on a column both tables have, repeated values of
\* the join column included, yields at most min(rows of existing, rows of new)
\* rows for join_type inner and at least max of the two for join_type outer.
C14_JoinRowBounds ==
    /\ JoinReturned("inner") => NRows(mresult.df) <= Min(NRows(Loaded), NRows(new_given))
    /\ JoinReturned("outer") => NRows(mresult.df) >= Max(NRows(Loaded), NRows(new_given))

\* the names present in both tables other than the join column
Conflicting == (Range(ColNames(Loaded)) \cap Range(ColNames(new_given))) \ { margs.merge_column }

\* the positions of the result's columns called name
Called(t, name) == { j \in 1..Len(t) : t[j].name = name }

\* the result has a column holding, row by row, the cell of the column c of
\* side (1 existing, 2 new) in the input row the result row came from
Carries(R, j, side, c) ==
    LET key(t) == t[CHOOSE h \in 1..Len(t) : t[h].name = margs.merge_column].vals
        rows == JoinPairs(key(Loaded), key(new_given), margs.join_type)
        src == IF side = 1 THEN Loaded ELSE new_given
    IN \A r \in 1..Len(rows) :
          R[j].vals[r] = IF rows[r][side] = 0 THEN Null ELSE CellOr(src, c, rows[r][side])

MergeReturned ==
    mpc = "done" /\ margs.merge_strategy = "merge_on_column" /\ mresult.kind = "returned"

\* C15: the conflicting columns of merge_on_column_join are the names in both
\* tables other than the join column.  With prefixing, each conflicting column
\* c of the new table is in the result as new_c beside the existing table's c,
\* and the rename map is exactly c -> new_c over the conflicting columns;
\* without prefixing both versions of c are in the result under different names.
C15_ConflictsKeptApart ==
    MergeReturned =>
        LET R == mresult.df
            md == mresult.metadata
            renames == IF "renamed_columns" \in DOMAIN md THEN md.renamed_columns ELSE << >>
        IN /\ md.conflicting_columns = Conflicting
           /\ margs.prefix_conflicting_columns =>
                 /\ DOMAIN renames = Conflicting
                 /\ \A c \in Conflicting : renames[c] = NewPrefix \o c
                 /\ \A c \in Conflicting :
                       /\ \E j \in Called(R, c) : Carries(R, j, 1, c)
                       /\ Called(R, NewPrefix \o c) # {}
                       /\ \A j \in Called(R, NewPrefix \o c) : Carries(R, j, 2, c)
           /\ ~margs.prefix_conflicting_columns =>
                 \A c \in Conflicting :
                    \E i, j \in 1..NCols(R) :
                       /\ R[i].name # R[j].name
                       /\ Cardinality(Called(R, R[i].name)) = 1
                       /\ Cardinality(Called(R, R[j].name)) = 1
                       /\ Carries(R, i, 1, c) /\ Carries(R, j, 2, c)

\* the calls the merge must refuse: the existing table cannot be loaded, the
\* strategy is unknown, or merge_on_column lacks its column on either side
MustFail ==
    \/ ~CanLoad
    \/ margs.merge_strategy \notin { "append_below", "merge_on_column", "keep_separate" }
    \/ /\ margs.merge_strategy = "merge_on_column"
       /\ \/ margs.merge_column = << >>
          \/ margs.merge_column \notin Range(ColNames(Loaded))
          \/ margs.merge_column \notin Range(ColNames(new_given))

\* C16: perform_merge_operation raises MergeError and returns no result when the
\* strategy is unknown, when the merge column is missing or absent from either
\* table under merge_on_column, or when the existing table cannot be loaded;
\* a call ends with a returned pair or with MergeError, never anything else.
C16_FailsWithMergeError ==
    mpc = "done" =>
        /\ mresult.kind \in { "returned", "MergeError" }
        /\ MustFail => mresult.kind = "MergeError"
        /\ mresult.kind = "MergeError" => DOMAIN mresult = { "kind" }
        /\ mresult.kind = "returned" =>
              \/ margs.merge_strategy = "keep_separate"
              \/ mresult.metadata.success

C16_Witness ==
    /\ mpc = "done"
    /\ mresult.kind = "MergeError"
    /\ CanLoad
    /\ margs.merge_strategy = "merge_on_column"
    /\ margs.merge_column = Age
    /\ Age \in Range(ColNames(new_given))
    /\ Age \notin Range(ColNames(Loaded))

\* what the database holds about dataset d: its cleaned table, its Dataset row
\* and its DatasetSource rows
Persisted(s, d) ==
    [cleaned |-> IF d \in DOMAIN s.cleaned THEN <<s.cleaned[d]>> ELSE << >>,
     dataset |-> IF d \in DOMAIN s.datasets THEN <<s.datasets[d]>> ELSE << >>,
     sources |-> { r \in s.sources : r.dataset_id = d }]

MergeFailed ==
    mpc = "responded" /\ margs.handler = "add_data" /\ mresult.error = "MergeError"

\* C17: when a merge fails with MergeError, at whatever step of
\* perform_merge_operation or update_dataset_with_merge, the dataset's cleaned
\* table, its Dataset row (n_rows_clean, n_cols_clean, source_count,
\* merge_history) and its DatasetSource rows are what they were before the call.
C17_FailedMergeLeavesState ==
    MergeFailed => Persisted(store, margs.dataset_id) = Persisted(store_given, margs.dataset_id)

\* C18: append_below_merge and merge_on_column_join leave the two tables passed
\* in as they were, whether they return or fail, so that the merge preview
\* reports the shape of the new table it passed in.
C18_InputsNotMutated ==
    /\ (mpc = "done" /\ CanLoad /\ margs.merge_strategy \in { "append_below", "merge_on_column" })
          => (new_df = new_given /\ existing_df = Loaded)
    /\ (mpc = "responded" /\ margs.handler = "preview" /\ mresult.status = 200)
          => mresult.new_data_shape = [rows |-> NRows(new_given), cols |-> NCols(new_given)]

\* C19: perform_merge_operation with keep_separate returns the new table with
\* the columns, rows and cells it was given and metadata whose strategy is
\* keep_separate and which do not report a merge; neither the call nor the
\* keep_separate branch of add_data_to_dataset changes what is persisted of
\* the existing dataset.
C19_KeepSeparateReturnsNew ==
    /\ (mpc = "done" /\ CanLoad /\ margs.merge_strategy = "keep_separate") =>
          /\ mresult.kind = "returned"
          /\ mresult.df = new_given
          /\ new_df = new_given
          /\ mresult.metadata.strategy = "keep_separate"
          /\ "success" \notin DOMAIN mresult.metadata
          /\ store = store_given
    /\ (margs.handler = "add_data" /\ margs.merge_strategy = "keep_separate") =>
          Persisted(store, margs.dataset_id) = Persisted(store_given, margs.dataset_id)

C19_Witness ==
    /\ mpc = "done" /\ margs.handler = "call"
    /\ margs.merge_strategy = "keep_separate"
    /\ mresult.kind = "returned"
    /\ NRows(new_given) = 2
    /\ mresult.df = new_given

\* C20: whatever the uploads and merges for other datasets do, storage errors,
\* retries and corruption recovery included, the cleaned table and the
\* metadata rows of a dataset they do not name stay as they were.
C20_OtherDatasetUntouched ==
    /\ Persisted(store, Other) = Persisted(StoreOf(<< >>), Other)
    /\ Other \in store.reports

\* C21: normalize_categoricals changes cell values only in columns whose
\* inferred semantic type is categorical: for either lowercase setting the
\* values of a column typed date or numeric are the same after it as before, so
\* a date column of timestamps still reads YYYY-MM-DDTHH:MM:SS (upper-case T).
C21_OnlyCategoricalsChange ==
    Ran("normcat") =>
        \A j \in 1..Len(Before("normcat")) :
            meta.dtype_inference[j].sem \in {"date", "numeric"}
            => After("normcat")[j].vals = Before("normcat")[j].vals

\* C22: the placeholder step replaces by null every cell whose value, after
\* trimming surrounding whitespace, equals "nan" or "none" case-insensitively
\* as a whole cell (" NaN " becomes null, "nanny" does not), changes no other
\* cell, and runs before the noise filter and every other stage.
C22_PlaceholdersBecomeNull ==
    Ran("placeholder") =>
        /\ Before("placeholder") = df_raw
        /\ Len(After("placeholder")) = Len(df_raw)
        /\ \A j \in 1..Len(df_raw) : \A i \in 1..NRows(df_raw) :
              LET c == df_raw[j].vals[i]
                  out == After("placeholder")[j].vals[i]
              IN IF c.k = "str" /\ Lower(Strip(c.s)) \in PlaceholderWords
                 THEN out = Null
                 ELSE out = c

\* the number of the columns up to column j whose normalized base name is that
\* of column j (its occurrence count, from 1)
Occurrence(cols, lowercase, j) ==
    Cardinality({ k \in 1..j : BaseName(cols[k], lowercase) = BaseName(cols[j], lowercase) })

\* C23: in standardize_column_names the first column with a normalized base
\* name keeps the bare name and the i-th column with that base name (i >= 2,
\* counted from 1) is renamed base_i; an empty normalized name counts as the
\* base name "unnamed".
C23_SuffixIsOccurrenceCount ==
    names_calls = 1 =>
        /\ Len(names_out) = Len(names_in)
        /\ \A j \in 1..Len(names_in) :
              LET base == BaseName(names_in[j], names_lower)
                  i == Occurrence(names_in, names_lower, j)
              IN names_out[j] = IF i = 1 THEN base ELSE base \o <<"_">> \o IntToStr(i)

\* the notes the report may carry after the first, in the order claimed, each
\* with the test that lets it appear and the number or names it shows
OptionalNotes ==
    << [on |-> meta.noise_rows_removed # 0, before |-> "removed ",
        value |-> IntToStr(meta.noise_rows_removed), after |-> " noise rows"],
       [on |-> meta.trailing_empty_rows_removed # 0, before |-> "removed ",
        value |-> IntToStr(meta.trailing_empty_rows_removed), after |-> " trailing empty rows"],
       [on |-> Len(meta.duplicate_columns_removed) > 0, before |-> "dropped duplicate columns: ",
        value |-> JoinNames(meta.duplicate_columns_removed), after |-> ""],
       [on |-> meta.duplicates_removed # 0, before |-> "removed ",
        value |-> IntToStr(meta.duplicates_removed), after |-> " duplicate rows"],
       [on |-> meta.rows_dropped_for_missing # 0, before |-> "dropped ",
        value |-> IntToStr(meta.rows_dropped_for_missing),
        after |-> " rows exceeding missing threshold"],
       [on |-> Len(meta.date_columns_standardized) > 0, before |-> "standardized date columns: ",
        value |-> JoinNames(meta.date_columns_standardized), after |-> ""] >>

\* C24: the notes list starts with the column-name standardization note and
\* then holds, in this order and each only when its counter is non-zero or its
\* list non-empty: noise rows removed, trailing empty rows removed, duplicate
\* columns removed (with names), duplicate rows removed, rows dropped for the
\* missing threshold, date columns standardized (with names); the number or
\* names of each note are those of the report field.
C24_NotesInOrder ==
    pc = "done" =>
        LET shown == { k \in 1..Len(OptionalNotes) : OptionalNotes[k].on }
            place(k) == 1 + Cardinality({ h \in shown : h <= k })
        IN /\ Len(meta.notes) = 1 + Cardinality(shown)
           /\ meta.notes[1].before = "standardized column names"
           /\ \A k \in shown :
                 /\ meta.notes[place(k)].before = OptionalNotes[k].before
                 /\ meta.notes[place(k)].value = OptionalNotes[k].value
                 /\ meta.notes[place(k)].after = OptionalNotes[k].after

C24_Witness ==
    /\ pc = "done"
    /\ Len(meta.notes) = 5
    /\ meta.noise_rows_removed = 1
    /\ meta.duplicate_columns_removed # << >>
    /\ meta.duplicates_removed = 1
    /\ meta.rows_dropped_for_missing = 1
    /\ meta.notes[4].after = " duplicate rows"
    /\ meta.notes[5].value = <<"1">>

\* C25: every caller that persists a pipeline or merge result (upload,
\* reclean, reprocess, add-data) retries the table write after a "locked"
\* failure: at most 5 attempts, the wait before each further attempt growing
\* exponentially with the attempt number; a failure is raised to the caller
\* only when it is not "locked" or when it is that of the last attempt.
C25_LockedWriteRetried ==
    margs # << >> /\ margs.handler \in { "upload", "reclean", "reprocess", "add_data" } =>
        /\ retry.attempt \in 1..MaxAttempts
        /\ \A k \in 2..Len(retry.waits) : retry.waits[k] > retry.waits[k - 1]
        /\ \A k \in 2..(Len(retry.waits) - 1) :
              retry.waits[k] * retry.waits[k] = retry.waits[k - 1] * retry.waits[k + 1]
        /\ mpc = "responded" /\ mresult.status # 200 /\ retry.last_error = "locked"
              => retry.attempt = MaxAttempts

\* C26: the report's counters account for every removed row and column:
\* rows_after = rows_before - noise_rows_removed - trailing_empty_rows_removed
\* - duplicates_removed - rows_dropped_for_missing, and cols_after =
\* cols_before - (number of names in duplicate_columns_removed).
C26_CountersAccount ==
    pc = "done" =>
        /\ meta.rows_after = meta.rows_before - meta.noise_rows_removed
                                - meta.trailing_empty_rows_removed
                                - meta.duplicates_removed - meta.rows_dropped_for_missing
        /\ meta.cols_after = meta.cols_before - Len(meta.duplicate_columns_removed)

\* C27: whenever both input tables have pairwise distinct column names, the
\* table merge_on_column_join returns has pairwise distinct column names, for
\* every join type and either setting of prefix_conflicting_columns, also when
\* a table already has a column named new_c for a conflicting column c.
C27_JoinNamesDistinct ==
    /\ MergeReturned
    /\ PairwiseDistinct(ColNames(Loaded))
    /\ PairwiseDistinct(ColNames(new_given))
    => PairwiseDistinct(ColNames(mresult.df))

\* C28: with missing_mode = drop_rows no null cell remains after
\* handle_missing_values: every column's recorded missing count 'after' is 0
\* for every numeric_fill and categorical_fill setting, also for a column whose
\* values are all null; and in every mode each column's 'after' count is at
\* most its 'before' count.
C28_DropRowsLeavesNoNull ==
    Ran("missing") =>
        /\ \A j \in 1..Len(meta.missing_by_column) :
              meta.missing_by_column[j].after <= meta.missing_by_column[j].before
        /\ cfg.missing_mode = "drop_rows" =>
              /\ \A j \in 1..Len(meta.missing_by_column) : meta.missing_by_column[j].after = 0
              /\ \A j \in 1..Len(After("missing")) : \A i \in 1..NRows(After("missing")) :
                    ~IsNa(After("missing")[j].vals[i])

\* the DatasetSource rows of dataset d
SourcesOf(s, d) == { r \in s.sources : r.dataset_id = d }

\* the bookkeeping of dataset d in the database s: source_count is one more
\* than the number of DatasetSource rows and than the length of merge_history,
\* n_rows_clean and n_cols_clean are the shape of the cleaned table, and the
\* source_order values are 1, 2, ... without repeats
Booked(s, d) ==
    /\ d \in DOMAIN s.datasets /\ d \in DOMAIN s.cleaned
    /\ s.datasets[d].source_count = 1 + Cardinality(SourcesOf(s, d))
    /\ s.datasets[d].source_count = 1 + Len(s.datasets[d].merge_history)
    /\ s.datasets[d].n_rows_clean = NRows(s.cleaned[d])
    /\ s.datasets[d].n_cols_clean = NCols(s.cleaned[d])
    /\ { r.source_order : r \in SourcesOf(s, d) } = 1..Cardinality(SourcesOf(s, d))

\* an add-data request that merges into its dataset has been answered
MergeAnswered ==
    /\ mpc = "responded" /\ margs.handler = "add_data"
    /\ margs.merge_strategy \in { "append_below", "merge_on_column" }

\* C29: after any sequence of update_dataset_with_merge calls on a dataset
\* created by an upload, source_count = 1 + (number of successful merges) =
\* 1 + (number of its DatasetSource rows) = 1 + (length of merge_history),
\* n_rows_clean and n_cols_clean are the row and column counts of the persisted
\* cleaned table, and the source_order values are 1, 2, ... in merge order.
\* Stated call by call: a dataset booked so before the call is booked so after
\* it, with source_count one higher exactly when the merge succeeded.
C29_MergeBookkeeping ==
    MergeAnswered /\ Booked(store_given, margs.dataset_id) =>
        /\ Booked(store, margs.dataset_id)
        /\ store.datasets[margs.dataset_id].source_count =
              store_given.datasets[margs.dataset_id].source_count
                 + (IF mresult.status = 200 THEN 1 ELSE 0)

\* every request has been answered with success
AllMerged == \A p \in Requests : mpc[p] = "responded" /\ mresult[p].status = 200

\* C30: if two add-data merges with strategy append_below run concurrently
\* against the same dataset and both report success, then, also when the
\* storage layer serializes each table write, the persisted cleaned table holds
\* the rows of the original table and of both uploads: its row count is the
\* original count plus both uploads' row counts.
C30_NoLostMerge ==
    AllMerged =>
        LET R == store.cleaned[margs.dataset_id]
            original == store_given.cleaned[margs.dataset_id]
        IN /\ \A p \in Requests : \E r \in 1..NRows(R) : \E j \in 1..NCols(R) :
                 R[j].name = Id /\ R[j].vals[r] = new_given[p][1].vals[1]
           /\ \A h \in 1..NRows(original) : \E r \in 1..NRows(R) : \E j \in 1..NCols(R) :
                 R[j].name = original[1].name /\ R[j].vals[r] = original[1].vals[h]
           /\ NRows(R) = NRows(original) + NRows(new_given[1]) + NRows(new_given[2])

===========================================================================
